---- MODULE Spec2Model ----
(***************************************************************************)
(* Model of the balance_bot control stack: the reflex tick                 *)
(* (reflex/balance_core.py, reflex/pid.py, utils.py), the adaptation       *)
(* components (adaptation/recovery.py, adaptation/battery.py, tuner.py)    *)
(* and the orchestrator (behavior/agent.py).                               *)
(*                                                                         *)
(* Fixed point.  Angles are whole degrees, rates are degrees per second,   *)
(* a time step is counted in hundredths of a second (loop_time 0.01 s is   *)
(* dt = 1), the PID integral is in hundredths of a degree-second, gains    *)
(* and motor commands before the driver are in thousandths, battery        *)
(* factors are in thousandths.                                             *)
(***************************************************************************)
EXTENDS Integers, Sequences, FiniteSets, TLC

VARIABLES
    pitch,      \* BalanceCore.pitch == ComplementaryFilter.angle (degrees)
    pid,        \* PIDController state: [integral, last_error]
    config,     \* RobotConfig: pid params (aliased by PIDController.params) and control.kickup_power
    hw,         \* RobotHardware: last values handed to the driver, whether it was released
    telem,      \* BalanceTelemetry returned by the most recent BalanceCore.update
    call,       \* arguments and hardware calls of the most recent BalanceCore.update
    battery,    \* BatteryEstimator state
    recovery,   \* RecoveryManager state
    tuner,      \* ContinuousTuner state
    finder,     \* BalancePointFinder state
    agent,      \* Agent fields, the locals of Agent.run and its helpers, and the position in them
    ret,        \* value returned by the most recent call of the component under study
    steps       \* number of calls made so far in a component specification

vars == <<pitch, pid, config, hw, telem, call, battery, recovery, tuner, finder, agent, ret, steps>>

-----------------------------------------------------------------------------
(* Program constants *)

\* BalanceCore.MAX_TILT_ANGLE (degrees of lean for velocity 1.0)
MAX_TILT_ANGLE == 10
\* RobotConfig crash angle (degrees)
crash_angle == 45
\* RobotConfig.complementary_alpha, in hundredths
complementary_alpha == 98
\* the turn gain of BalanceCore.update (turn_rate * 30.0)
TURN_GAIN == 30
\* ControlConfig.yaw_correction_factor, in thousandths
yaw_correction_factor == 500
\* RobotHardware motor command range
MOTOR_MIN_OUTPUT == -100
MOTOR_MAX_OUTPUT == 100
\* BatteryConfig, factors in thousandths
min_compensation == 500
max_compensation == 1200
min_pwm == 20
ema_alpha == 50
factor_smoothing == 10
\* piconzero.py: attempts per I2C access, RESET register
RETRIES == 10
REG_RESET == 20
\* tuner.py CRASH_ANGLE (degrees)
CRASH_ANGLE == 60
\* RecoveryManager ramp step per tick (degrees)
STARTUP_RAMP_SPEED == 2
\* TunerConfig: oscillation_threshold in hundredths, gain nudges in thousandths, error thresholds in degrees
oscillation_threshold == 15
kp_oscillation_penalty == -100
kd_oscillation_boost == 50
stability_std_dev == 1
stability_mean_err == 1
kp_stability_boost == 20
steady_error_threshold == 3
ki_boost == 5
\* TunerConfig balance-point fields: rate threshold (deg/s), motor threshold (motor units),
\* learning rate and maximum deviation (degrees)
balance_pitch_rate_threshold == 10
balance_motor_threshold == 5
balance_learning_rate == 1
balance_max_deviation == 5
\* Agent maneuvers: power ladder, position thresholds (degrees), catch gains in tenths
FLOP_START_POWER == 30
POWER_STEP == 5
MAX_POWER == 100
FIX_POWER == 30
SIDE_THRESHOLD == 5
REST_THRESHOLD == 10
SETTLE_RATE_THRESHOLD == 10
CATCH_TOLERANCE == 10
CATCH_KP_SCALE == 15
CATCH_KD_SCALE == 20
BOOTSTRAP_KP == 10000
BOOTSTRAP_KD == 200
\* Agent.run: LED/save poll every 10 ticks
POLL_EVERY == 10
\* RecoveryManager thresholds: kp in thousandths, pitch in degrees
RECOVERY_MIN_KP == 1000
RECOVERY_PITCH == 5

(* Bounds of the model *)

\* durations of the orchestrator's waits, in loop ticks
WarmupTicks == 1
SettleTicks == 1
SettleExtendTicks == 1
MeasureTicks == 2
FlopBurstTicks == 1
FlopWaitTicks == 1
FixTicks == 1
LiftTicks == 1
CatchTicks == 1
SaveIntervalTicks == 12
\* saturation of the counters that only observe the run
MaxWaited == 4
MaxKickIters == 4
\* Run loop iterations explored
MaxRunTicks == 3
\* ContinuousTuner buffer_size, TunerConfig.cooldown_reset and balance_check_interval of the modelled configuration
buffer_size == 2
cooldown_reset == 2
balance_check_interval == 2

\* PIDParams.integral_limit of the modelled configuration (hundredths of a degree-second)
integral_limit == 20
\* BatteryConfig.baseline_samples of the modelled configuration
baseline_samples == 2
\* number of reflex ticks explored by the reflex-tick specification
MaxCoreTicks == 3
\* number of PIDController calls explored
MaxPidCalls == 6
\* number of BatteryEstimator.update calls explored
MaxBatteryCalls == 8
MaxTunerCalls == 6

-----------------------------------------------------------------------------
(* Helpers *)

Abs(x) == IF x < 0 THEN -x ELSE x
Min(a, b) == IF a < b THEN a ELSE b
Max(a, b) == IF a > b THEN a ELSE b

\* Python int(): truncation toward zero of a / b
TruncDiv(a, b) == IF a >= 0 THEN a \div b ELSE -((-a) \div b)

\* nearest integer to a / b (b > 0), the fixed-point image of a float division
RoundDiv(a, b) == IF a >= 0 THEN (a + b \div 2) \div b ELSE -(((-a) + b \div 2) \div b)

\* utils.clamp
clamp(value, min_val, max_val) == Max(Min(value, max_val), min_val)

\* utils.ComplementaryFilter.update: alpha*(angle + rate*dt) + (1-alpha)*new_angle
FilterUpdate(angle, new_angle, rate, dt) ==
    RoundDiv(complementary_alpha * (100 * angle + rate * dt)
             + (100 - complementary_alpha) * 100 * new_angle, 10000)

-----------------------------------------------------------------------------
(* reflex/pid.py *)

\* measurement_rate is <<>> for None and <<rate>> for a gyro rate
NoRate == <<>>

IntegrateUnclamped(integral, error, dt, limit) == integral + error * dt

\* PIDController.update, lines 47-50: accumulate, then anti-windup clamp
Integrate(integral, error, dt, limit) ==
    clamp(integral + error * dt, -limit, limit)

\* PIDController.update, lines 52-63
Derivative(error, last_error, dt, measurement_rate) ==
    IF measurement_rate # NoRate
    THEN -measurement_rate[1]
    ELSE IF dt > 0 THEN TruncDiv(100 * (error - last_error), dt) ELSE 0

\* PIDController.update: [state, output]; output in thousandths
PidUpdate(p, params, error, dt, measurement_rate) ==
    LET integral == Integrate(p.integral, error, dt, params.integral_limit)
        derivative == Derivative(error, p.last_error, dt, measurement_rate)
    IN  [state  |-> [integral |-> integral, last_error |-> error],
         output |-> params.kp * error
                    + TruncDiv(params.ki * integral, 100)
                    + params.kd * derivative]

PidResetKeepsIntegral(p) == [p EXCEPT !.last_error = 0]

\* PIDController.reset
PidReset(p) == [integral |-> 0, last_error |-> 0]

-----------------------------------------------------------------------------
(* hardware/robot_hardware.py *)

\* RobotHardware.__init__: driver values last handed over, inversion flags
HwInit == [left |-> 0, right |-> 0, released |-> FALSE,
           invert_l |-> FALSE, invert_r |-> FALSE]

DriverValueUnclamped(value, invert) == TruncDiv(IF invert THEN -value ELSE value, 1000)

\* RobotHardware.set_motors, lines 298-305: invert, clamp, int(); value in thousandths
DriverValue(value, invert) ==
    TruncDiv(clamp(IF invert THEN -value ELSE value,
                   1000 * MOTOR_MIN_OUTPUT, 1000 * MOTOR_MAX_OUTPUT), 1000)

\* RobotHardware.set_motors: hand both values to the driver
HwSetMotors(h, left, right) ==
    [h EXCEPT !.left  = DriverValue(left, h.invert_l),
              !.right = DriverValue(right, h.invert_r)]

\* RobotHardware.stop
HwStop(h) == [h EXCEPT !.left = 0, !.right = 0]

\* RobotHardware.cleanup
HwCleanup(h) == [h EXCEPT !.released = TRUE]

-----------------------------------------------------------------------------
(* reflex/balance_core.py *)

NoTelemetry == [pitch_angle |-> 0, pitch_rate |-> 0, yaw_rate |-> 0,
                motor_output |-> 0, crashed |-> FALSE, valid |-> FALSE]

\* BalanceCore.update, lines 119-125; velocity in tenths
TargetAngle(cfg, motion, tuning) ==
    cfg.target_angle + tuning.target_angle_offset
    + TruncDiv(motion.velocity * MAX_TILT_ANGLE, 10)

IsCrashedRelativeToTarget(p, target_angle, limit) == Abs(p - target_angle) > limit

\* BalanceCore.update, line 128: the safety cutoff condition
IsCrashed(p, target_angle, limit) == Abs(p) > limit

\* BalanceCore.update.  c is [pitch, pid, config, hw]; the result adds the
\* returned telemetry and the hardware calls made.  PIDController.params is
\* the very object config.pid, so writing the tuning gains writes config.
BalanceCoreUpdate(c, reading, motion, tuning, dt, battery_compensation) ==
    LET p == FilterUpdate(c.pitch, reading.pitch_angle, reading.pitch_rate, dt)
        cfg == [c.config EXCEPT !.kp = tuning.kp, !.ki = tuning.ki, !.kd = tuning.kd]
        target_angle == TargetAngle(cfg, motion, tuning)
    IN  IF IsCrashed(p, target_angle, crash_angle)
        THEN [pitch  |-> p,
              pid    |-> PidReset(c.pid),
              config |-> cfg,
              hw     |-> HwStop(c.hw),
              telem  |-> [pitch_angle |-> p, pitch_rate |-> reading.pitch_rate,
                          yaw_rate |-> reading.yaw_rate, motor_output |-> 0,
                          crashed |-> TRUE, valid |-> TRUE],
              calls  |-> <<"stop">>]
        ELSE LET error == p - target_angle
                 r == PidUpdate(c.pid, cfg, error, dt, <<reading.pitch_rate>>)
                 turn_cmd == TruncDiv(motion.turn_rate * TURN_GAIN * 1000, 10)
                 yaw_damping == -reading.yaw_rate * yaw_correction_factor
                 total_turn == turn_cmd + yaw_damping
                 left0 == r.output + total_turn
                 right0 == r.output - total_turn
                 left_motor == IF battery_compensation > 0
                               THEN TruncDiv(left0 * 1000, battery_compensation) ELSE left0
                 right_motor == IF battery_compensation > 0
                                THEN TruncDiv(right0 * 1000, battery_compensation) ELSE right0
             IN [pitch  |-> p,
                 pid    |-> r.state,
                 config |-> cfg,
                 hw     |-> HwSetMotors(c.hw, left_motor, right_motor),
                 telem  |-> [pitch_angle |-> p, pitch_rate |-> reading.pitch_rate,
                             yaw_rate |-> reading.yaw_rate, motor_output |-> r.output,
                             crashed |-> FALSE, valid |-> TRUE],
                 calls  |-> <<"set_motors">>]

Core == [pitch |-> pitch, pid |-> pid, config |-> config, hw |-> hw]

-----------------------------------------------------------------------------
(* adaptation/battery.py *)

\* BatteryEstimator.__init__
BatteryInit == [samples_collected |-> 0, baseline_responsiveness |-> 0,
                current_responsiveness |-> 0, compensation_factor |-> 1000]

TargetFactorUnclamped(ratio) == ratio

\* BatteryEstimator.update, lines 74-76
TargetFactor(ratio) == clamp(ratio, min_compensation, max_compensation)

SmoothFactorInOneStep(target_factor, factor) == target_factor

\* BatteryEstimator.update, lines 79-82
SmoothFactor(target_factor, factor) ==
    RoundDiv(factor_smoothing * target_factor + (1000 - factor_smoothing) * factor, 1000)

BaselineLastSample(baseline_responsiveness, samples_collected, raw_responsiveness) ==
    raw_responsiveness

\* BatteryEstimator.update, lines 51-54: the running average of the samples
BaselineMean(baseline_responsiveness, samples_collected, raw_responsiveness) ==
    RoundDiv(baseline_responsiveness * samples_collected + raw_responsiveness,
             samples_collected + 1)

\* BatteryEstimator.update, line 46, pwm in thousandths
RawResponsiveness(pwm, angular_accel) == RoundDiv(1000 * Abs(angular_accel), Abs(pwm))

DeadzoneOnlyAtZero(pwm) == pwm = 0

\* BatteryEstimator.update, line 42: abs(pwm) < self.config.min_pwm
InDeadzone(pwm) == Abs(pwm) < 1000 * min_pwm

\* BatteryEstimator.update: [state, ret]; pwm in thousandths, responsiveness in
\* whole units of angular acceleration per motor unit
BatteryUpdate(b, pwm, angular_accel) ==
    IF InDeadzone(pwm)
    THEN [state |-> b, ret |-> b.compensation_factor, ratio |-> 1000]
    ELSE LET raw_responsiveness == RawResponsiveness(pwm, angular_accel)
         IN  IF b.samples_collected < baseline_samples
             THEN LET base == BaselineMean(b.baseline_responsiveness, b.samples_collected,
                                           raw_responsiveness)
                  IN [state |-> [b EXCEPT !.baseline_responsiveness = base,
                                          !.samples_collected = @ + 1,
                                          !.current_responsiveness = base],
                      ret   |-> 1000, ratio |-> 1000]
             ELSE LET current == RoundDiv(ema_alpha * raw_responsiveness
                                          + (1000 - ema_alpha) * b.current_responsiveness, 1000)
                      ratio == IF b.baseline_responsiveness > 0
                               THEN RoundDiv(1000 * current, b.baseline_responsiveness)
                               ELSE 1000
                      factor == SmoothFactor(TargetFactor(ratio), b.compensation_factor)
                  IN [state |-> [b EXCEPT !.current_responsiveness = current,
                                          !.compensation_factor = factor],
                      ret   |-> factor, ratio |-> ratio]

-----------------------------------------------------------------------------
(* adaptation/recovery.py *)

None == <<>>

\* RecoveryManager.__init__
RecoveryInit == [recovering |-> FALSE, ramp_setpoint |-> 0]

RampStepUnclamped(ramp_setpoint) ==
    IF ramp_setpoint > 0 THEN ramp_setpoint - STARTUP_RAMP_SPEED
    ELSE ramp_setpoint + STARTUP_RAMP_SPEED

\* RecoveryManager.update, lines 48-55: one ramp step toward 0, never across it
RampStep(ramp_setpoint) ==
    IF ramp_setpoint > 0
    THEN (IF ramp_setpoint - STARTUP_RAMP_SPEED < 0 THEN 0 ELSE ramp_setpoint - STARTUP_RAMP_SPEED)
    ELSE (IF ramp_setpoint + STARTUP_RAMP_SPEED > 0 THEN 0 ELSE ramp_setpoint + STARTUP_RAMP_SPEED)

SoftStartAtAnyGain(current_pitch, current_kp) == Abs(current_pitch) > RECOVERY_PITCH

\* RecoveryManager.update, line 37: normal gains and a significant lean
NeedsSoftStart(current_pitch, current_kp) ==
    current_kp >= RECOVERY_MIN_KP /\ Abs(current_pitch) > RECOVERY_PITCH

RampDoneWhenRampZero(ramp_setpoint, current_pitch) == 10 * Abs(ramp_setpoint) < 1

\* RecoveryManager.update, line 59: |ramp_setpoint| < 0.1 and |current_pitch| < 5.0
RampDone(ramp_setpoint, current_pitch) ==
    10 * Abs(ramp_setpoint) < 1 /\ Abs(current_pitch) < RECOVERY_PITCH

\* RecoveryManager.update: [state, ret]; ret is None or <<absolute target angle>>
RecoveryUpdate(r, is_crashed, current_pitch, current_kp) ==
    IF is_crashed
    THEN [state |-> [r EXCEPT !.recovering = FALSE], ret |-> None]
    ELSE IF ~r.recovering /\ ~NeedsSoftStart(current_pitch, current_kp)
    THEN [state |-> r, ret |-> None]
    ELSE LET start == IF r.recovering THEN r.ramp_setpoint ELSE current_pitch
             ramp == RampStep(start)
         IN  IF RampDone(ramp, current_pitch)
             THEN [state |-> [recovering |-> FALSE, ramp_setpoint |-> ramp], ret |-> None]
             ELSE [state |-> [recovering |-> TRUE, ramp_setpoint |-> ramp], ret |-> <<ramp>>]

-----------------------------------------------------------------------------
(* tuner.py *)

RECURSIVE SeqSum(_)
SeqSum(q) == IF q = <<>> THEN 0 ELSE Head(q) + SeqSum(Tail(q))

SumSquares(q) == SeqSum([i \in 1..Len(q) |-> q[i] * q[i]])

ZeroAdjustment == [kp |-> 0, ki |-> 0, kd |-> 0]

\* ContinuousTuner.__init__
TunerInit == [errors |-> <<>>, cooldown_timer |-> 0]

\* ContinuousTuner._count_zero_crossings
CountZeroCrossings(errors) ==
    Cardinality({ i \in 1..(Len(errors) - 1) :
        \/ (errors[i] > 0 /\ errors[i + 1] <= 0)
        \/ (errors[i] < 0 /\ errors[i + 1] >= 0) })

\* ContinuousTuner.update, lines 63-104: the heuristics on a full window.
AnalyzeOneHeuristic(errors, scale) ==
    LET n == Len(errors)
        sum == SeqSum(errors)
        spread == n * SumSquares(errors) - sum * sum
        stable_dev == IF n < 2 THEN 0 < stability_std_dev
                      ELSE spread < stability_std_dev * stability_std_dev * n * (n - 1)
        oscillating == 100 * CountZeroCrossings(errors) > buffer_size * oscillation_threshold
        stable == ~oscillating /\ stable_dev /\ Abs(sum) < n * stability_mean_err
        leaning == ~oscillating /\ ~stable /\ Abs(sum) > n * steady_error_threshold
    IN  [kp |-> IF oscillating THEN kp_oscillation_penalty * scale
                ELSE IF stable THEN kp_stability_boost * scale ELSE 0,
         ki |-> IF leaning THEN ki_boost * scale ELSE 0,
         kd |-> IF oscillating THEN kd_oscillation_boost * scale ELSE 0,
         tuned |-> oscillating \/ stable \/ leaning]

\* mean and stdev are compared through sums: |mean| < m is |sum| < n*m, and
\* stdev < d is n*sumsq - sum^2 < d^2 * n * (n-1) (stdev of fewer than two samples is 0).
Analyze(errors, scale) ==
    LET n == Len(errors)
        sum == SeqSum(errors)
        spread == n * SumSquares(errors) - sum * sum
        stable_dev == IF n < 2 THEN 0 < stability_std_dev
                      ELSE spread < stability_std_dev * stability_std_dev * n * (n - 1)
        oscillating == 100 * CountZeroCrossings(errors) > buffer_size * oscillation_threshold
        stable == ~oscillating /\ stable_dev /\ Abs(sum) < n * stability_mean_err
        leaning == Abs(sum) > n * steady_error_threshold
    IN  [kp |-> IF oscillating THEN kp_oscillation_penalty * scale
                ELSE IF stable THEN kp_stability_boost * scale ELSE 0,
         ki |-> IF leaning THEN ki_boost * scale ELSE 0,
         kd |-> IF oscillating THEN kd_oscillation_boost * scale ELSE 0,
         tuned |-> oscillating \/ stable \/ leaning]

PushErrorKeepsAll(errors, error) == Append(errors, error)

\* ContinuousTuner.update, lines 50-52: append, then drop the oldest sample when over capacity
PushError(errors, error) ==
    IF Len(Append(errors, error)) > buffer_size
    THEN Tail(Append(errors, error)) ELSE Append(errors, error)

CooldownNotStarted(tuned, cooldown_timer) == cooldown_timer

\* ContinuousTuner.update, lines 101-102
CooldownAfterTuning(tuned, cooldown_timer) == IF tuned THEN cooldown_reset ELSE cooldown_timer

WindowKeptAfterCrash(errors) == errors

\* ContinuousTuner.update, line 47: self.errors.clear()
WindowAfterCrash(errors) == <<>>

\* ContinuousTuner.update: [state, adj]
TunerUpdate(t, error, scale) ==
    IF Abs(error) > CRASH_ANGLE
    THEN [state |-> [t EXCEPT !.errors = WindowAfterCrash(t.errors)], adj |-> ZeroAdjustment]
    ELSE LET errors == PushError(t.errors, error)
         IN  IF t.cooldown_timer > 0
             THEN [state |-> [errors |-> errors, cooldown_timer |-> t.cooldown_timer - 1],
                   adj |-> ZeroAdjustment]
             ELSE IF Len(errors) < buffer_size
             THEN [state |-> [t EXCEPT !.errors = errors], adj |-> ZeroAdjustment]
             ELSE LET a == Analyze(errors, scale)
                  IN [state |-> [errors |-> errors,
                                 cooldown_timer |-> CooldownAfterTuning(a.tuned, t.cooldown_timer)],
                      adj |-> [kp |-> a.kp, ki |-> a.ki, kd |-> a.kd]]

\* BalancePointFinder.__init__
FinderInit == [motor_history |-> <<>>, cooldown_timer |-> 0]

HistoryKeptAfterAnalysis(history) == history

\* BalancePointFinder.update, line 153: motor_history.clear()
HistoryAfterAnalysis(history) == <<>>

\* BalancePointFinder.update, line 141: the sample is stable enough to learn from
Qualifies(pitch_rate) == Abs(pitch_rate) <= balance_pitch_rate_threshold

AdjustmentAtThreshold(history) ==
    IF SeqSum(history) >= Len(history) * 1000 * balance_motor_threshold
    THEN -balance_learning_rate
    ELSE IF SeqSum(history) <= -(Len(history) * 1000 * balance_motor_threshold)
    THEN balance_learning_rate ELSE 0

\* BalancePointFinder.update, lines 151-174: the mean of the history against
\* balance_motor_threshold, compared through the sum
Adjustment(history) ==
    IF SeqSum(history) > Len(history) * 1000 * balance_motor_threshold
    THEN -balance_learning_rate
    ELSE IF SeqSum(history) < -(Len(history) * 1000 * balance_motor_threshold)
    THEN balance_learning_rate ELSE 0

\* BalancePointFinder.update: [state, ret]; motor_output in thousandths, ret in degrees
FinderUpdate(f, motor_output, pitch_rate) ==
    IF f.cooldown_timer > 0
    THEN [state |-> [f EXCEPT !.cooldown_timer = @ - 1], ret |-> 0]
    ELSE IF ~Qualifies(pitch_rate)
    THEN [state |-> f, ret |-> 0]
    ELSE LET history == Append(f.motor_history, motor_output)
         IN  IF Len(history) < balance_check_interval
             THEN [state |-> [f EXCEPT !.motor_history = history], ret |-> 0]
             ELSE [state |-> [f EXCEPT !.motor_history = HistoryAfterAnalysis(history)],
                   ret |-> Adjustment(history)]

-----------------------------------------------------------------------------
(* Initial values shared by the specifications *)

\* PIDParams defaults (kp 5.0) with the modelled integral_limit; ControlConfig.kickup_power
ConfigDefault == [kp |-> 5000, ki |-> 0, kd |-> 0, target_angle |-> 0,
                  integral_limit |-> integral_limit, kickup_power |-> 60]

NoCall == [motion |-> [velocity |-> 0, turn_rate |-> 0],
           tuning |-> [kp |-> 0, ki |-> 0, kd |-> 0, target_angle_offset |-> 0],
           calls |-> <<>>, integral_before |-> 0, last_error_before |-> 0,
           error |-> 0, dt |-> 0, ratio |-> 1000,
           pwm |-> 0, angular_accel |-> 0, battery_before |-> BatteryInit, sample_sum |-> 0]

\* what the adaptation phase of a Run iteration did: nothing, outside the Run loop
NoAdaptation == [prev_crashed |-> FALSE, rec_target |-> <<>>, rec_started |-> FALSE,
                 tuner_called |-> FALSE, tuned |-> FALSE, finder_called |-> FALSE,
                 bal_adj |-> 0, target_before |-> 0, dirty_before |-> FALSE,
                 saved |-> FALSE, dirty_at_poll |-> FALSE, elapsed |-> 0, prev_save |-> 0]

\* what the startup decision of Agent.run (lines 94-115) did: the first_run
\* flag and the pitch it saw, and the calls of _perform_discovery and of
\* _incremental_kickup it made
NoStartup == [decided |-> FALSE, first_run |-> FALSE, pitch |-> 0,
              discoveries |-> 0, kickups |-> 0]

\* Agent.__init__ and the locals of Agent.run and its helpers before run is entered;
\* last_telemetry = NoTelemetry stands for None
AgentIdle == [pc |-> "idle", stack |-> <<>>, phase |-> "idle", outcome |-> "none",
              interrupted_in |-> "none",
              first_run |-> FALSE, config_dirty |-> FALSE, saves |-> 0, since_save |-> 0, last_save |-> 0,
              exit_saved |-> FALSE,
              ticks |-> 0, timer |-> 0, waited |-> 0,
              start_side |-> "none", back_angle |-> 0, front_angle |-> 0,
              kickup_power_est |-> 0, result |-> 0, pitch_sum |-> 0, count |-> 0,
              target_side |-> "none", power |-> 0, start_power |-> 0,
              kick_direction |-> 0, target_angle |-> 0, kick_iters |-> 0,
              catch_params |-> [kp |-> 0, ki |-> 0, kd |-> 0, target_angle_offset |-> 0],
              last_telemetry |-> NoTelemetry, last_pitch_rate |-> 0,
              adaptation |-> NoAdaptation, startup |-> NoStartup]

InitParts ==
    /\ pitch = 0
    /\ pid = [integral |-> 0, last_error |-> 0]
    /\ hw = HwInit
    /\ telem = NoTelemetry
    /\ call = NoCall
    /\ battery = BatteryInit
    /\ recovery = RecoveryInit
    /\ tuner = TunerInit
    /\ finder = FinderInit
    /\ ret = 0
    /\ steps = 0

\* a component on its own: no Agent is running
InitComponents == InitParts /\ agent = AgentIdle

-----------------------------------------------------------------------------
(* Specification of PIDController alone: any errors, any positive dt, resets interleaved *)

PidErrors == {-40, -7, 0, 7, 40}
PidDts == {1, 2}
PidRates == {NoRate, <<0>>, <<100>>}

InitPid == InitComponents /\ config = [ConfigDefault EXCEPT !.ki = 100, !.kd = 200]

PidUpdateCall ==
    /\ steps < MaxPidCalls
    /\ \E error \in PidErrors, dt \in PidDts, rate \in PidRates :
          LET r == PidUpdate(pid, config, error, dt, rate)
          IN /\ pid' = r.state
             /\ ret' = r.output
             /\ call' = [NoCall EXCEPT !.integral_before = pid.integral,
                                       !.error = error, !.dt = dt]
    /\ steps' = steps + 1
    /\ UNCHANGED <<pitch, config, hw, telem, battery, recovery, tuner, finder, agent>>

PidResetCall ==
    /\ steps < MaxPidCalls
    /\ pid' = PidReset(pid)
    /\ ret' = 0
    /\ call' = NoCall
    /\ steps' = steps + 1
    /\ UNCHANGED <<pitch, config, hw, telem, battery, recovery, tuner, finder, agent>>

NextPid == PidUpdateCall \/ PidResetCall

SpecPid == InitPid /\ [][NextPid]_vars

-----------------------------------------------------------------------------
(* Specification of BatteryEstimator alone *)

BatteryPwms == {0, 10000, 50000}
BatteryAccels == {0, 5000, 1000000}

InitBattery == InitComponents /\ config = ConfigDefault

BatteryUpdateCall ==
    /\ steps < MaxBatteryCalls
    /\ \E pwm \in BatteryPwms, angular_accel \in BatteryAccels :
          LET r == BatteryUpdate(battery, pwm, angular_accel)
          IN /\ battery' = r.state
             /\ ret' = r.ret
             /\ call' = [NoCall EXCEPT
                            !.ratio = r.ratio, !.pwm = pwm, !.angular_accel = angular_accel,
                            !.battery_before = battery,
                            !.sample_sum =
                                IF r.state.samples_collected > battery.samples_collected
                                THEN call.sample_sum + RawResponsiveness(pwm, angular_accel)
                                ELSE call.sample_sum]
    /\ steps' = steps + 1
    /\ UNCHANGED <<pitch, pid, config, hw, telem, recovery, tuner, finder, agent>>

NextBattery == BatteryUpdateCall

SpecBattery == InitBattery /\ [][NextBattery]_vars

-----------------------------------------------------------------------------
(* Specification of ContinuousTuner alone: any errors.  call records the error
   fed to the most recent update and how many updates lie between it and the
   last update that returned a nudge (-1: no nudge so far, counted up to
   cooldown_reset + 1). *)

\* a component under study with its own record of the most recent call
InitWithCall(c, r) ==
    /\ pitch = 0
    /\ pid = [integral |-> 0, last_error |-> 0]
    /\ config = ConfigDefault
    /\ hw = HwInit
    /\ telem = NoTelemetry
    /\ call = c
    /\ battery = BatteryInit
    /\ recovery = RecoveryInit
    /\ tuner = TunerInit
    /\ finder = FinderInit
    /\ agent = AgentIdle
    /\ ret = r
    /\ steps = 0

\* oscillating around zero, steady at zero, leaning, falling
TunerErrors == {-10, 0, 4, 10, 70}

\* the aggressiveness multiplier passed to update
TunerScales == {1, 2}

\* since_crash counts the non-crash samples passed to update since the last
\* crash sample (-1 before the first crash sample)
InitTuner == InitWithCall([error |-> 0, scale |-> 1, cooldown_before |-> 0,
                           gap_before |-> -1, gap |-> -1, since_crash |-> -1],
                          ZeroAdjustment)

TunerUpdateCall ==
    /\ steps < MaxTunerCalls
    /\ \E error \in TunerErrors, scale \in TunerScales :
          LET r == TunerUpdate(tuner, error, scale)
          IN /\ tuner' = r.state
             /\ ret' = r.adj
             /\ call' = [error |-> error,
                         scale |-> scale,
                         cooldown_before |-> tuner.cooldown_timer,
                         gap_before |-> call.gap,
                         gap |-> IF r.adj # ZeroAdjustment THEN 0
                                 ELSE IF call.gap < 0 THEN -1
                                 ELSE Min(call.gap + 1, cooldown_reset + 1),
                         since_crash |-> IF Abs(error) > CRASH_ANGLE THEN 0
                                         ELSE IF call.since_crash < 0 THEN -1
                                         ELSE Min(call.since_crash + 1, buffer_size + 1)]
    /\ steps' = steps + 1
    /\ UNCHANGED <<pitch, pid, config, hw, telem, battery, recovery, finder, agent>>

NextTuner == TunerUpdateCall

SpecTuner == InitTuner /\ [][NextTuner]_vars

-----------------------------------------------------------------------------
(* BalancePointFinder on its own: any sequence of update calls.  call.qual
   counts the qualifying samples fed since the last non-zero return (this call
   included), call.len_before is the buffer length the call found. *)

MaxFinderCalls == 6

FinderOutputs == {-10000, 0, 10000}
FinderRates == {0, 10, 20}

InitFinder ==
    InitWithCall([motor_output |-> 0, pitch_rate |-> 0, len_before |-> 0,
                  qual |-> 0, nudged_before |-> FALSE, analysed |-> <<>>], 0)

FinderUpdateCall ==
    /\ steps < MaxFinderCalls
    /\ \E motor_output \in FinderOutputs, pitch_rate \in FinderRates :
          LET r == FinderUpdate(finder, motor_output, pitch_rate)
              since == IF ret # 0 THEN 0 ELSE call.qual
          IN  /\ finder' = r.state
              /\ ret' = r.ret
              /\ call' = [motor_output |-> motor_output, pitch_rate |-> pitch_rate,
                          len_before |-> Len(finder.motor_history),
                          qual |-> IF Qualifies(pitch_rate)
                                   THEN Min(since + 1, 2 * balance_check_interval)
                                   ELSE since,
                          nudged_before |-> call.nudged_before \/ ret # 0,
                          analysed |->
                              IF /\ finder.cooldown_timer = 0
                                 /\ Abs(pitch_rate) <= balance_pitch_rate_threshold
                                 /\ Len(finder.motor_history) + 1 >= balance_check_interval
                              THEN Append(finder.motor_history, motor_output)
                              ELSE <<>>]
    /\ steps' = steps + 1
    /\ UNCHANGED <<pitch, pid, config, hw, telem, battery, recovery, tuner, agent>>

NextFinder == FinderUpdateCall

SpecFinder == InitFinder /\ [][NextFinder]_vars

-----------------------------------------------------------------------------
(* ContinuousTuner._count_zero_crossings on its own: the window grows one
   sample at a time up to MaxWindow samples and ret is the count for the window
   as it stands. *)

MaxWindow == 4

\* positive, zero and negative errors
CrossingErrors == {-1, 0, 1}

InitCrossings == InitWithCall([error |-> 0], 0)

CountCrossings ==
    /\ Len(tuner.errors) < MaxWindow
    /\ \E error \in CrossingErrors :
          /\ tuner' = [tuner EXCEPT !.errors = Append(tuner.errors, error)]
          /\ call' = [error |-> error]
    /\ ret' = CountZeroCrossings(tuner'.errors)
    /\ UNCHANGED <<pitch, pid, config, hw, telem, battery, recovery, finder, agent, steps>>

NextCrossings == CountCrossings

SpecCrossings == InitCrossings /\ [][NextCrossings]_vars

-----------------------------------------------------------------------------
(* RecoveryManager on its own: any sequence of update calls, without end.
   call records the arguments, the state the call found, the pitch at which the
   current ramp started, the number of non-crashed updates the ramp has had
   (the starting call included) and whether the call is the first ever or
   follows a crashed one. *)

MaxRampUpdates == 12

RecoveryPitches == {-7, 0, 5, 6, 20}
RecoveryKps == {0, 999, 1000, 5000}

InitRecovery ==
    InitWithCall([is_crashed |-> FALSE, current_pitch |-> 0, current_kp |-> 0,
                  called |-> FALSE, recovering_before |-> FALSE, ramp_before |-> 0,
                  start |-> 0, updates |-> 0, after_crash |-> TRUE], None)

RecoveryUpdateCall ==
    /\ \E is_crashed \in BOOLEAN, current_pitch \in RecoveryPitches,
          current_kp \in RecoveryKps :
          LET r == RecoveryUpdate(recovery, is_crashed, current_pitch, current_kp)
              ramped == ~is_crashed /\ (recovery.recovering \/ r.state.recovering)
          IN  /\ recovery' = r.state
              /\ ret' = r.ret
              /\ call' = [is_crashed |-> is_crashed, current_pitch |-> current_pitch,
                          current_kp |-> current_kp, called |-> TRUE,
                          recovering_before |-> recovery.recovering,
                          ramp_before |-> recovery.ramp_setpoint,
                          start |-> IF ~ramped THEN 0
                                    ELSE IF recovery.recovering THEN call.start
                                    ELSE current_pitch,
                          updates |-> IF ~ramped THEN 0
                                      ELSE IF recovery.recovering
                                      THEN Min(call.updates + 1, MaxRampUpdates)
                                      ELSE 1,
                          after_crash |-> ~call.called \/ call.is_crashed]
    /\ UNCHANGED <<pitch, pid, config, hw, telem, battery, tuner, finder, agent, steps>>

NextRecovery == RecoveryUpdateCall

SpecRecovery == InitRecovery /\ [][NextRecovery]_vars

\* update is called on every iteration of the Run loop for as long as it runs
SpecRecoveryFair == SpecRecovery /\ WF_vars(RecoveryUpdateCall)

-----------------------------------------------------------------------------
(* RobotHardware.set_motors and stop on their own: any commands, whole or
   fractional, within and beyond the motor range, with any inversion flags *)

MotorInputs == {-250000, -100000, -99500, -500, 0, 30000, 100000, 100001, 790000}

InitHardware ==
    /\ pitch = 0
    /\ pid = [integral |-> 0, last_error |-> 0]
    /\ config = ConfigDefault
    /\ \E invert_l \in BOOLEAN, invert_r \in BOOLEAN :
          hw = [HwInit EXCEPT !.invert_l = invert_l, !.invert_r = invert_r]
    /\ telem = NoTelemetry
    /\ call = [op |-> "none", left |-> 0, right |-> 0]
    /\ battery = BatteryInit
    /\ recovery = RecoveryInit
    /\ tuner = TunerInit
    /\ finder = FinderInit
    /\ agent = AgentIdle
    /\ ret = 0
    /\ steps = 0

HwSetMotorsCall ==
    /\ \E left \in MotorInputs, right \in MotorInputs :
          /\ hw' = HwSetMotors(hw, left, right)
          /\ call' = [op |-> "set_motors", left |-> left, right |-> right]
    /\ UNCHANGED <<pitch, pid, config, telem, battery, recovery, tuner, finder, agent, ret, steps>>

HwStopCall ==
    /\ hw' = HwStop(hw)
    /\ call' = [op |-> "stop", left |-> 0, right |-> 0]
    /\ UNCHANGED <<pitch, pid, config, telem, battery, recovery, tuner, finder, agent, ret, steps>>

NextHardware ==
    \/ HwSetMotorsCall
    \/ HwStopCall

SpecHardware == InitHardware /\ [][NextHardware]_vars

-----------------------------------------------------------------------------
(* The Picon Zero motor drivers on a bus whose every access may fail: the
   class PiconZero of piconzero.py and the module hardware/piconzero.py that
   RobotHardware imports.  call holds the driver, the operation in progress,
   the register writes it still has to make, the attempts made at the current
   write, and whether an error was logged or raised. *)

Drivers == {"PiconZero", "hardware.piconzero"}
DriverMotors == {0, 1}
DriverValues == {-100, 0, 100}

DriverIdle(driver) ==
    [driver |-> driver, op |-> "none", pc |-> "idle", pending |-> <<>>, attempts |-> 0,
     exhausted |-> FALSE, logged |-> FALSE, raised |-> FALSE]

InitDriver == \E driver \in Drivers : InitWithCall(DriverIdle(driver), 0)

\* a driver operation is entered with the register writes it makes, in order
DriverBegin(c, op, writes) ==
    [DriverIdle(c.driver) EXCEPT !.op = op, !.pc = "writing", !.pending = writes]

\* PiconZero.set_motor, setMotor
DriverSetMotor ==
    /\ call.pc = "idle"
    /\ \E motor \in DriverMotors, value \in DriverValues :
          call' = DriverBegin(call, "set_motor", << <<motor, value>> >>)
    /\ UNCHANGED <<pitch, pid, config, hw, telem, battery, recovery, tuner, finder, agent,
                   ret, steps>>

\* PiconZero.stop, stop: both motors to 0
DriverStop ==
    /\ call.pc = "idle"
    /\ call' = DriverBegin(call, "stop", << <<0, 0>>, <<1, 0>> >>)
    /\ UNCHANGED <<pitch, pid, config, hw, telem, battery, recovery, tuner, finder, agent,
                   ret, steps>>

\* PiconZero.cleanup, cleanup: reset the board
DriverCleanup ==
    /\ call.pc = "idle"
    /\ call' = DriverBegin(call, "cleanup", << <<REG_RESET, 0>> >>)
    /\ UNCHANGED <<pitch, pid, config, hw, telem, battery, recovery, tuner, finder, agent,
                   ret, steps>>

\* the write at hand is over: go on to the next one or return to the caller
NextWrite(c) ==
    [c EXCEPT !.pending = Tail(c.pending), !.attempts = 0,
              !.pc = IF Tail(c.pending) = <<>> THEN "idle" ELSE "writing"]

\* one pass of the retry loop: bus.write_byte_data succeeds and the write
\* returns, or it raises and the loop goes on
WriteAttempt ==
    /\ call.pc = "writing"
    /\ call.attempts < RETRIES
    /\ \E ok \in BOOLEAN :
          call' = IF ok THEN NextWrite([call EXCEPT !.attempts = @ + 1])
                  ELSE [call EXCEPT !.attempts = @ + 1]
    /\ UNCHANGED <<pitch, pid, config, hw, telem, battery, recovery, tuner, finder, agent,
                   ret, steps>>

\* PiconZero._write_byte, line 57: the loop ran out, log and return
WriteByteFails ==
    /\ call.driver = "PiconZero"
    /\ call.pc = "writing"
    /\ call.attempts = RETRIES
    /\ call' = [NextWrite(call) EXCEPT !.attempts = RETRIES, !.exhausted = TRUE,
                                       !.logged = TRUE]
    /\ UNCHANGED <<pitch, pid, config, hw, telem, battery, recovery, tuner, finder, agent,
                   ret, steps>>

\* hardware/piconzero.py setMotor, line 56, and cleanup, line 229: the loop ran
\* out, raise OSError to the caller
SetMotorFails ==
    /\ call.driver = "hardware.piconzero"
    /\ call.pc = "writing"
    /\ call.attempts = RETRIES
    /\ call' = [call EXCEPT !.pc = "raised", !.pending = <<>>, !.exhausted = TRUE,
                            !.raised = TRUE]
    /\ UNCHANGED <<pitch, pid, config, hw, telem, battery, recovery, tuner, finder, agent,
                   ret, steps>>

NextDriver ==
    \/ DriverSetMotor
    \/ DriverStop
    \/ DriverCleanup
    \/ WriteAttempt
    \/ WriteByteFails
    \/ SetMotorFails

SpecDriver == InitDriver /\ [][NextDriver]_vars

-----------------------------------------------------------------------------
(* RobotHardware.read_imu_raw on a sensor whose every read may raise OSError.
   call.held is the history the zero-order hold is measured against: the last
   accelerometer and gyro vectors the sensor delivered, zeros before the first. *)

ZeroVector == [x |-> 0, y |-> 0, z |-> 0]
SensorVectors == {ZeroVector, [x |-> 1, y |-> 2, z |-> 3], [x |-> 4, y |-> 5, z |-> 6],
                  [x |-> -7, y |-> 0, z |-> 9]}
\* what a sensor read does: it returns a vector or raises OSError
SensorOutcomes == {[ok |-> TRUE, data |-> v] : v \in SensorVectors}
                      \cup {[ok |-> FALSE, data |-> ZeroVector]}

ImuIdle == [op |-> "none", raised |-> FALSE, accel_read |-> FALSE, gyro_read |-> FALSE,
            held |-> [accel |-> ZeroVector, gyro |-> ZeroVector]]

InitImu == InitWithCall(ImuIdle, [accel |-> ZeroVector, gyro |-> ZeroVector])

\* RobotHardware.read_imu_raw, line 243: the tuple is built left to right, the
\* gyro is read only if the accelerometer read returned, and an OSError of
\* either read leaves the method
ReadImuRaw ==
    /\ \E accel \in SensorOutcomes, gyro \in SensorOutcomes :
          LET gyro_read == accel.ok
              returned == accel.ok /\ gyro.ok
          IN  /\ ret' = IF returned THEN [accel |-> accel.data, gyro |-> gyro.data] ELSE ret
              /\ call' = [op |-> "read_imu_raw", raised |-> ~returned,
                          accel_read |-> accel.ok, gyro_read |-> gyro_read /\ gyro.ok,
                          held |-> [accel |-> IF accel.ok THEN accel.data
                                              ELSE call.held.accel,
                                    gyro  |-> IF gyro_read /\ gyro.ok THEN gyro.data
                                              ELSE call.held.gyro]]
    /\ UNCHANGED <<pitch, pid, config, hw, telem, battery, recovery, tuner, finder, agent,
                   steps>>

NextImu == ReadImuRaw

SpecImu == InitImu /\ [][NextImu]_vars

-----------------------------------------------------------------------------
(* config.py: RobotConfig.load, _migrate_legacy_data and save.  A JSON object is
   a function from its keys to its values; config holds the RobotConfig (its
   pid section and one root field), call.file the content of pid_config.json. *)

\* PIDParams(), lines 12-52
PIDParamsDefault == [kp |-> ConfigDefault.kp, ki |-> ConfigDefault.ki, kd |-> ConfigDefault.kd,
                     target_angle |-> ConfigDefault.target_angle,
                     integral_limit |-> ConfigDefault.integral_limit]

\* RobotConfig(pid=PIDParams()), lines 376-439 (of the root fields, loop_time)
RobotConfigDefault == [pid |-> PIDParamsDefault, loop_time |-> 1]

\* lines 529-534
legacy_map == [pid_kp |-> "kp", pid_ki |-> "ki", pid_kd |-> "kd",
               target_angle |-> "target_angle"]

\* _filter_keys: the entries of data whose key is a field of the dataclass
FilterKeys(annotations, data) == [k \in (DOMAIN data) \cap annotations |-> data[k]]

\* dataclass construction from keyword arguments: absent fields take defaults
Dataclass(defaults, kwargs) ==
    [k \in DOMAIN defaults |-> IF k \in DOMAIN kwargs THEN kwargs[k] ELSE defaults[k]]

MigrateKeepingFlatKeys(data) ==
    IF "pid" \in DOMAIN data THEN data ELSE ("pid" :> <<>>) @@ data

\* _migrate_legacy_data, lines 520-546
MigrateLegacyData(data) ==
    IF "pid" \in DOMAIN data
    THEN data
    ELSE LET old_keys == (DOMAIN data) \cap (DOMAIN legacy_map)
             new_data == [k \in (DOMAIN data) \ old_keys |-> data[k]]
             pid_data == [new_key \in { legacy_map[old_key] : old_key \in old_keys } |->
                             data[CHOOSE old_key \in old_keys : legacy_map[old_key] = new_key]]
         IN  IF DOMAIN pid_data # {} THEN ("pid" :> pid_data) @@ new_data ELSE new_data

\* RobotConfig.load, lines 450-517, on the file [exists, valid, data]
LoadConfig(file) ==
    IF ~file.exists \/ ~file.valid
    THEN RobotConfigDefault
    ELSE LET data == MigrateLegacyData(file.data)
             pid_data == IF "pid" \in DOMAIN data THEN data["pid"] ELSE <<>>
             rest == [k \in (DOMAIN data) \ {"pid"} |-> data[k]]
             pid_params == Dataclass(PIDParamsDefault,
                                     FilterKeys(DOMAIN PIDParamsDefault, pid_data))
             config_kwargs == FilterKeys(DOMAIN RobotConfigDefault, rest)
         IN  Dataclass([RobotConfigDefault EXCEPT !.pid = pid_params], config_kwargs)

\* asdict(self), line 551: every field, the pid section as a nested object
AsDict(c) == [k \in DOMAIN RobotConfigDefault |->
                 IF k = "pid" THEN [f \in DOMAIN PIDParamsDefault |-> c.pid[f]] ELSE c[k]]

\* the values a file may give to its keys
FileValues == [pid_kp |-> 2000, pid_ki |-> 100, pid_kd |-> 300, target_angle |-> 4,
               loop_time |-> 2, obsolete |-> 9]

PidValues == [kp |-> 8000, ki |-> 400, kd |-> 700, target_angle |-> -3,
              integral_limit |-> 25, obsolete |-> 9]

\* flat part of a document: any legacy keys, root fields and unknown keys
FlatDocuments == { [k \in keys |-> FileValues[k]] : keys \in SUBSET (DOMAIN FileValues) }

PidDocuments == { [k \in keys |-> PidValues[k]] : keys \in SUBSET (DOMAIN PidValues) }

Documents == FlatDocuments \cup { ("pid" :> p) @@ d : p \in PidDocuments, d \in FlatDocuments }

NoFile == [exists |-> FALSE, valid |-> FALSE, data |-> <<>>]

Files == {NoFile, [NoFile EXCEPT !.exists = TRUE]}
             \cup { [exists |-> TRUE, valid |-> TRUE, data |-> d] : d \in Documents }

\* gains written by the adaptation between a load and a save
AdaptedGains == {5020, 4900}

InitConfig ==
    /\ pitch = 0
    /\ pid = [integral |-> 0, last_error |-> 0]
    /\ hw = HwInit
    /\ telem = NoTelemetry
    /\ battery = BatteryInit
    /\ recovery = RecoveryInit
    /\ tuner = TunerInit
    /\ finder = FinderInit
    /\ agent = AgentIdle
    /\ ret = 0
    /\ steps = 0
    /\ config = RobotConfigDefault
    /\ \E file \in Files :
          call = [op |-> "none", file |-> file, saved |-> <<>>, failed |-> FALSE]

\* config = RobotConfig.load()
ConfigLoad ==
    /\ config' = LoadConfig(call.file)
    /\ call' = [call EXCEPT !.op = "load", !.failed = FALSE]
    /\ UNCHANGED <<pitch, pid, hw, telem, battery, recovery, tuner, finder, agent, ret, steps>>

\* the Run loop adjusts a gain in place (agent.py:167)
ConfigAdapt ==
    /\ call.op # "none"
    /\ \E kp \in AdaptedGains : config' = [config EXCEPT !.pid.kp = kp]
    /\ call' = [call EXCEPT !.op = "adapt", !.failed = FALSE]
    /\ UNCHANGED <<pitch, pid, hw, telem, battery, recovery, tuner, finder, agent, ret, steps>>

\* config.save(), lines 548-555: the file is rewritten, or OSError is logged
ConfigSave ==
    /\ call.op # "none"
    /\ \E written \in BOOLEAN :
          call' = IF written
                  THEN [op |-> "save", saved |-> <<config>>, failed |-> FALSE,
                        file |-> [exists |-> TRUE, valid |-> TRUE, data |-> AsDict(config)]]
                  ELSE [call EXCEPT !.op = "save", !.failed = TRUE]
    /\ UNCHANGED <<pitch, pid, config, hw, telem, battery, recovery, tuner, finder, agent,
                   ret, steps>>

NextConfig ==
    \/ ConfigLoad
    \/ ConfigAdapt
    \/ ConfigSave

SpecConfig == InitConfig /\ [][NextConfig]_vars

-----------------------------------------------------------------------------
(* utils.py: RateLimiter and the loop that uses it.  Time is counted in whole
   units of the monotonic clock; call holds the clock (now), the limiter
   (next_time) and, for the record, the time t0 and the number n of sleep()
   calls since construction or the last reset. *)

\* self.period = 1.0 / frequency, in clock units
RatePeriod == 4

MaxSleeps == 5
MaxClock == 24

\* durations of the work between two calls: short, or longer than a period
WorkTimes == {1, 3, 6}

\* time.sleep may return late
Oversleep == {0, 1}

DeadlineFromNow(next_time, now) == now + RatePeriod

\* RateLimiter.sleep, line 90: self.next_time += self.period
AdvancedDeadline(next_time, now) == next_time + RatePeriod

\* RateLimiter.__init__ at time 0
InitRate ==
    /\ pitch = 0
    /\ pid = [integral |-> 0, last_error |-> 0]
    /\ config = ConfigDefault
    /\ hw = HwInit
    /\ telem = NoTelemetry
    /\ battery = BatteryInit
    /\ recovery = RecoveryInit
    /\ tuner = TunerInit
    /\ finder = FinderInit
    /\ agent = AgentIdle
    /\ ret = 0
    /\ steps = 0
    /\ call = [op |-> "init", now |-> 0, next_time |-> 0, t0 |-> 0, n |-> 0,
               now_before |-> 0, slept |-> 0, overrun |-> FALSE]

RateFrame == UNCHANGED <<pitch, pid, config, hw, telem, battery, recovery, tuner, finder,
                         agent, ret, steps>>

\* the caller works between two calls of the limiter
RateWork ==
    /\ \E d \in WorkTimes :
          /\ call.now + d <= MaxClock
          /\ call' = [call EXCEPT !.op = "work", !.now = @ + d]
    /\ RateFrame

\* RateLimiter.sleep, lines 86-93
RateSleep ==
    /\ call.n < MaxSleeps
    /\ call.now <= MaxClock
    /\ LET next_time == AdvancedDeadline(call.next_time, call.now)
           sleep_time == next_time - call.now
       IN  \E late \in Oversleep :
             call' = [call EXCEPT
                         !.op = "sleep",
                         !.next_time = next_time,
                         !.n = @ + 1,
                         !.now_before = call.now,
                         !.now = IF sleep_time > 0 THEN call.now + sleep_time + late ELSE @,
                         !.slept = IF sleep_time > 0 THEN sleep_time + late ELSE 0,
                         !.overrun = @ \/ sleep_time <= 0]
    /\ RateFrame

\* RateLimiter.reset, lines 95-97
RateReset ==
    /\ call.op # "reset"
    /\ call' = [call EXCEPT !.op = "reset", !.next_time = call.now, !.t0 = call.now,
                            !.n = 0, !.slept = 0, !.overrun = FALSE]
    /\ RateFrame

NextRate ==
    \/ RateWork
    \/ RateSleep
    \/ RateReset

SpecRate == InitRate /\ [][NextRate]_vars

-----------------------------------------------------------------------------
(* The single-file program src/balance_bot.py: the main thread constructs
   BalanceBot, which starts the control-loop thread, and waits; Ctrl-C raises
   KeyboardInterrupt in the main thread.  call holds the two threads'
   positions and the fields of BalanceBot; pid holds PID.integral and
   PID.prev_error, pitch holds self.pitch, hw the speeds last written to the
   two motor channels.  kb_stopped and fell record that the handler's
   pz.stop() and the fall cutoff have been executed.  A step of one thread is
   the code up to its next call of the motor board, so that the calls of the
   two threads interleave as the scheduler allows. *)

\* PID.compute: anti-windup clamp; the fall cutoff; the yaw gain in thousandths;
\* the jitter threshold; the clip of drive_motors
BotIntegralLimit == 20
FALL_CUTOFF == 40
BOT_YAW_GAIN == 500
VARIANCE_LIMIT == 5
MAX_SPEED == 100
\* auto_tune: first gain and its increment per iteration, in thousandths
TEST_KP_START == 5000
TEST_KP_STEP == 50

\* iterations of the 8-second tuning window and of the balancing state
TuneTicks == 2
MaxBotTicks == 4
\* length of the error history and the count of jittery ticks that relaxes the gains
HistoryLen == 2
VibrationLimit == 1

\* filtered pitch, target angle found by calibrate_vertical, yaw rate (deg/s)
BotPitches == {0, 8, 50}
BotTargets == {0, 2}
BotYaws == {0, 20}

BotInit == [main |-> "init", loop |-> "idle", running |-> TRUE,
            state |-> "CALIBRATING_VERTICAL", target_angle |-> 0,
            kp |-> 0, ki |-> 0, kd |-> 0, test_kp |-> 0, tune_ticks |-> 0,
            yaw_correction |-> 0, vibration_counter |-> 0, history |-> <<>>,
            right_speed |-> 0, ticks |-> 0, kb_stopped |-> FALSE, fell |-> FALSE]

InitBot == InitWithCall(BotInit, 0)

BotFrame == UNCHANGED <<config, telem, battery, recovery, tuner, finder, agent, ret, steps>>

\* pz.stop()
PzStop(h) == [h EXCEPT !.left = 0, !.right = 0]

\* drive_motors, lines 183-191: clip, differential, speed of the left channel
LeftSpeed(balance_output, yaw_correction) ==
    TruncDiv(clamp(balance_output, -1000 * MAX_SPEED, 1000 * MAX_SPEED) + yaw_correction, 1000)

\* the same for the right channel
RightSpeed(balance_output, yaw_correction) ==
    TruncDiv(clamp(balance_output, -1000 * MAX_SPEED, 1000 * MAX_SPEED) - yaw_correction, 1000)

\* PID.compute: [integral, output]; integral in hundredths of a degree-second
BotCompute(error) ==
    LET integral == clamp(pid.integral + error, -100 * BotIntegralLimit, 100 * BotIntegralLimit)
    IN  [integral |-> integral,
         output |-> call.kp * error + RoundDiv(call.ki * integral, 100)
                    + call.kd * 100 * (error - pid.last_error)]

\* lines 228-230: n * n * variance > 5 * n * n over a full history
Jittery(history) ==
    /\ Len(history) = HistoryLen
    /\ HistoryLen * SumSquares(history) - SeqSum(history) * SeqSum(history)
          > VARIANCE_LIMIT * HistoryLen * HistoryLen

\* BalanceBot.__init__, lines 79-101: pz.init(), the thread is started
MainConstruct ==
    /\ call.main = "init"
    /\ call' = [call EXCEPT !.main = "wait", !.loop = "head"]
    /\ hw' = PzStop(hw)
    /\ UNCHANGED <<pitch, pid>>
    /\ BotFrame

\* line 247: the wait loop ends when bot.running is false
MainWaitEnds ==
    /\ call.main = "wait"
    /\ ~call.running
    /\ call' = [call EXCEPT !.main = "done"]
    /\ UNCHANGED <<pitch, pid, hw>>
    /\ BotFrame

\* Ctrl-C while the main thread sleeps in the wait loop
KeyboardInterrupt ==
    /\ call.main = "wait"
    /\ call' = [call EXCEPT !.main = "handler"]
    /\ UNCHANGED <<pitch, pid, hw>>
    /\ BotFrame

\* lines 249-251: except KeyboardInterrupt: print, pz.stop()
HandlerStop ==
    /\ call.main = "handler"
    /\ hw' = PzStop(hw)
    /\ call' = [call EXCEPT !.main = "exit", !.kb_stopped = TRUE]
    /\ UNCHANGED <<pitch, pid>>
    /\ BotFrame

\* line 252: sys.exit() ends the main thread; the interpreter then waits for
\* the control-loop thread, which is not a daemon
SysExit ==
    /\ call.main = "exit"
    /\ call' = [call EXCEPT !.main = "done"]
    /\ UNCHANGED <<pitch, pid, hw>>
    /\ BotFrame

\* lines 198-199 and 120-138, calibrate_vertical
CalibrateVertical ==
    /\ call.loop = "head"
    /\ call.running
    /\ call.state = "CALIBRATING_VERTICAL"
    /\ \E target_angle \in BotTargets :
          /\ pitch' = target_angle
          /\ call' = [call EXCEPT !.target_angle = target_angle, !.state = "AUTO_TUNING"]
    /\ UNCHANGED <<pid, hw>>
    /\ BotFrame

\* lines 201-202 and 140-151: auto_tune begins
TuneStart ==
    /\ call.loop = "head"
    /\ call.running
    /\ call.state = "AUTO_TUNING"
    /\ call' = [call EXCEPT !.loop = "tune", !.test_kp = TEST_KP_START, !.tune_ticks = 0]
    /\ UNCHANGED <<pitch, pid, hw>>
    /\ BotFrame

\* lines 153-159 and 183-191: one iteration of the tuning window up to the left channel
TuneTick ==
    /\ call.loop = "tune"
    /\ call.tune_ticks < TuneTicks
    /\ \E current_pitch \in BotPitches :
          LET output == call.test_kp * (call.target_angle - current_pitch)
          IN  /\ pitch' = current_pitch
              /\ hw' = [hw EXCEPT !.left = LeftSpeed(output, 0)]
              /\ call' = [call EXCEPT !.loop = "tune_right",
                                      !.right_speed = RightSpeed(output, 0)]
    /\ UNCHANGED pid
    /\ BotFrame

\* line 192 and lines 161-168: the right channel, then test_kp += 0.05
TuneRight ==
    /\ call.loop = "tune_right"
    /\ hw' = [hw EXCEPT !.right = call.right_speed]
    /\ call' = [call EXCEPT !.loop = "tune", !.test_kp = @ + TEST_KP_STEP,
                            !.tune_ticks = @ + 1]
    /\ UNCHANGED <<pitch, pid>>
    /\ BotFrame

\* lines 170-179: the window is over; gains from the last test_kp
TuneDone ==
    /\ call.loop = "tune"
    /\ call.tune_ticks >= TuneTicks
    /\ LET final_kp == call.test_kp \div 2
       IN  call' = [call EXCEPT !.loop = "head", !.state = "BALANCING",
                                !.kp = final_kp,
                                !.kd = RoundDiv(final_kp * 5, 100),
                                !.ki = RoundDiv(final_kp * 5, 1000)]
    /\ pid' = [integral |-> 0, last_error |-> 0]
    /\ UNCHANGED <<pitch, hw>>
    /\ BotFrame

\* lines 204-212: the fall cutoff.  It is the only assignment of False to
\* self.running and it leaves the loop by break, so the test of line 195 is
\* never evaluated to false: the thread ends here or not at all.
FallCutoff ==
    /\ call.loop = "head"
    /\ call.running
    /\ call.state = "BALANCING"
    /\ call.ticks < MaxBotTicks
    /\ \E current_pitch \in BotPitches :
          /\ Abs(current_pitch - call.target_angle) > FALL_CUTOFF
          /\ pitch' = current_pitch
    /\ hw' = PzStop(hw)
    /\ call' = [call EXCEPT !.running = FALSE, !.loop = "exited", !.fell = TRUE]
    /\ UNCHANGED pid
    /\ BotFrame

\* lines 204-237 without a fall: PID, yaw correction, vibration detection, and
\* drive_motors up to the left channel
BalanceTick ==
    /\ call.loop = "head"
    /\ call.running
    /\ call.state = "BALANCING"
    /\ call.ticks < MaxBotTicks
    /\ \E current_pitch \in BotPitches, yaw_rate \in BotYaws :
          /\ Abs(current_pitch - call.target_angle) <= FALL_CUTOFF
          /\ LET error == call.target_angle - current_pitch
                 c == BotCompute(error)
                 yaw_correction == -yaw_rate * BOT_YAW_GAIN
                 pushed == Append(call.history, error)
                 history == IF Len(pushed) > HistoryLen THEN Tail(pushed) ELSE pushed
                 counted == IF Jittery(history) THEN call.vibration_counter + 1
                            ELSE call.vibration_counter
                 relax == Jittery(history) /\ counted > VibrationLimit
             IN  /\ pitch' = current_pitch
                 /\ pid' = [integral |-> c.integral, last_error |-> error]
                 /\ hw' = [hw EXCEPT !.left = LeftSpeed(c.output, yaw_correction)]
                 /\ call' = [call EXCEPT
                       !.loop = "balance_right",
                       !.right_speed = RightSpeed(c.output, yaw_correction),
                       !.yaw_correction = yaw_correction,
                       !.history = IF relax THEN <<>> ELSE history,
                       !.vibration_counter = IF relax THEN 0 ELSE counted,
                       !.kp = IF relax THEN TruncDiv(9 * @, 10) ELSE @,
                       !.kd = IF relax THEN TruncDiv(9 * @, 10) ELSE @,
                       !.ticks = @ + 1]
    /\ BotFrame

\* line 192: the right channel
BalanceRight ==
    /\ call.loop = "balance_right"
    /\ hw' = [hw EXCEPT !.right = call.right_speed]
    /\ call' = [call EXCEPT !.loop = "head"]
    /\ UNCHANGED <<pitch, pid>>
    /\ BotFrame

\* a call of the motor board made by the control-loop thread
ControlThreadCommand == TuneTick \/ TuneRight \/ BalanceTick \/ BalanceRight \/ FallCutoff

NextBot ==
    \/ MainConstruct
    \/ MainWaitEnds
    \/ KeyboardInterrupt
    \/ HandlerStop
    \/ SysExit
    \/ CalibrateVertical
    \/ TuneStart
    \/ TuneTick
    \/ TuneRight
    \/ TuneDone
    \/ FallCutoff
    \/ BalanceTick
    \/ BalanceRight

SpecBot == InitBot /\ [][NextBot]_vars

-----------------------------------------------------------------------------
(* Specification of the reflex tick alone: any reading, motion and tuning *)

CoreReadings ==
    { [pitch_angle |-> a, pitch_rate |-> 100 * a, yaw_rate |-> y] :
        a \in {-50, 0, 40, 50}, y \in {0, 20} }
    \cup { [pitch_angle |-> 0, pitch_rate |-> -4000, yaw_rate |-> 0] }
CoreMotions == { [velocity |-> v, turn_rate |-> 0] : v \in {0, 10} }
CoreTunings == { [kp |-> 5000, ki |-> 100, kd |-> 200, target_angle_offset |-> o] : o \in {0, 10} }
CoreTargets == {-10, 0}
CoreCompensations == {1000, 800}

InitCore ==
    /\ InitComponents
    /\ \E t \in CoreTargets : config = [ConfigDefault EXCEPT !.target_angle = t]

CoreTick ==
    /\ steps < MaxCoreTicks
    /\ \E reading \in CoreReadings, motion \in CoreMotions, tuning \in CoreTunings,
          comp \in CoreCompensations :
          LET r == BalanceCoreUpdate(Core, reading, motion, tuning, 1, comp)
          IN /\ pitch' = r.pitch
             /\ pid' = r.pid
             /\ config' = r.config
             /\ hw' = r.hw
             /\ telem' = r.telem
             /\ call' = [NoCall EXCEPT !.motion = motion, !.tuning = tuning,
                                       !.calls = r.calls, !.integral_before = pid.integral]
    /\ steps' = steps + 1
    /\ UNCHANGED <<battery, recovery, tuner, finder, agent, ret>>

NextCore == CoreTick

SpecCore == InitCore /\ [][NextCore]_vars

-----------------------------------------------------------------------------
(* behavior/agent.py: Agent.run and its helpers.
   Every loop of the orchestrator sleeps loop_time per iteration, so its
   deadlines are counted in ticks: agent.timer holds the ticks left before the
   loop's deadline and agent.waited the ticks the loop has run so far. *)

ZeroMotion == [velocity |-> 0, turn_rate |-> 0]
ZeroTuning == [kp |-> 0, ki |-> 0, kd |-> 0, target_angle_offset |-> 0]

\* BalanceCore.cleanup
CoreCleanupSkipsRelease(h) == HwStop(h)

CoreCleanup(h) == HwCleanup(HwStop(h))

\* poses of the robot: resting on the back wheel, upright, resting on the front
\* wheel, fallen beyond crash_angle; yaw rates and noise of the gyro (deg/s)
AgentPoses == {-40, 0, 40, 50}
AgentYaws == {0, 20}
GyroNoises == {0, 20}
\* burst powers at which the robot is able to tip over to its other side
FlopSuccessPowers == {95, 100}

RestPose(side) == IF side = "front" THEN 40 ELSE -40

\* The robot moves when it is handled or balancing (Warmup, catch loop, Run
\* loop) and when an impulse is able to move it; otherwise it lies where it is.
EnvPoses ==
    IF agent.pc \in {"warmup", "catch", "run"} THEN AgentPoses
    ELSE IF agent.pc = "f_wait" /\ agent.power \in FlopSuccessPowers
    THEN {pitch, RestPose(agent.target_side)}
    ELSE IF agent.pc = "sleep" /\ Head(agent.stack) = "k_catch_start"
    THEN {pitch, 0}
    ELSE IF agent.pc = "sleep" /\ Head(agent.stack) = "k_fix_stop"
    THEN {pitch, IF agent.kick_direction < 0 THEN -40 ELSE 40}
    ELSE {pitch}

EnvYaws == IF agent.pc \in {"warmup", "catch", "run"} THEN AgentYaws ELSE {0}

\* while the robot waits to settle its gyro may keep reporting a rate
EnvNoises == IF agent.pc = "settle" THEN GyroNoises ELSE {0}

\* RobotHardware.read_imu_converted: the accelerometer angle is the pose and the
\* gyro rate is the rate of the move from the last estimate over one loop_time
Readings(poses, noises, yaws) ==
    { [pitch_angle |-> a, pitch_rate |-> 100 * (a - pitch) + n, yaw_rate |-> y] :
        a \in poses, n \in noises, y \in yaws }

AgentReadings == Readings(EnvPoses, EnvNoises, EnvYaws)

\* self.core.update(...) on the core c, recorded in call
CoreUpdate(c, reading, motion, tuning, battery_compensation) ==
    LET r == BalanceCoreUpdate(c, reading, motion, tuning, 1, battery_compensation)
    IN  /\ pitch' = r.pitch
        /\ pid' = r.pid
        /\ config' = r.config
        /\ hw' = r.hw
        /\ telem' = r.telem
        /\ call' = [NoCall EXCEPT !.motion = motion, !.tuning = tuning, !.calls = r.calls,
                                  !.integral_before = c.pid.integral,
                                  !.last_error_before = c.pid.last_error,
                                  !.error = r.pid.last_error, !.dt = 1]

\* self.core.update(MotionRequest(), TuningParams(0, 0, 0, 0), self.config.loop_time)
IdleUpdate(reading) == CoreUpdate(Core, reading, ZeroMotion, ZeroTuning, 1000)

\* one loop iteration has elapsed
Ticked(a) == [a EXCEPT !.waited = Min(@ + 1, MaxWaited),
                       !.since_save = Min(@ + 1, SaveIntervalTicks + 1)]

CallSettle(a, return_label) ==
    [a EXCEPT !.pc = "settle", !.stack = <<return_label>> \o @,
              !.timer = SettleTicks, !.waited = 0]

CallMeasure(a, return_label) ==
    [a EXCEPT !.pc = "measure", !.stack = <<return_label>> \o @,
              !.timer = MeasureTicks, !.waited = 0, !.pitch_sum = 0, !.count = 0]

CallSleep(a, duration, return_label) ==
    [a EXCEPT !.pc = "sleep", !.stack = <<return_label>> \o @,
              !.timer = duration, !.waited = 0]

Return(a) == [a EXCEPT !.pc = Head(a.stack), !.stack = Tail(a.stack),
                       !.timer = 0, !.waited = 0]

\* Agent._incremental_kickup, lines 413-421
CallKickup(a, target_angle, start_power, return_label) ==
    [a EXCEPT !.pc = "k_head", !.stack = <<return_label>> \o @,
              !.power = start_power, !.start_power = start_power,
              !.kick_direction = IF pitch < 0 THEN -1 ELSE 1,
              !.target_angle = target_angle, !.kick_iters = 0]

\* Agent._incremental_flop, lines 362-371
CallFlop(a, target_side, return_label) ==
    [a EXCEPT !.pc = "f_head", !.stack = <<return_label>> \o @,
              !.target_side = target_side, !.power = FLOP_START_POWER]

\* the locals of a helper are gone when it is left
LeaveKickup(a) == [a EXCEPT !.power = 0, !.start_power = 0, !.kick_direction = 0,
                            !.target_angle = 0, !.kick_iters = 0,
                            !.catch_params = ZeroTuning]

\* Agent.run, lines 97-100 and 112-115: except Exception -> core.cleanup(); return
RaiseRuntimeError ==
    /\ hw' = CoreCleanup(hw)
    /\ agent' = [AgentIdle EXCEPT
                    !.pc = "done", !.phase = "done",
                    !.outcome = IF agent.phase = "discovery"
                                THEN "discovery_failed" ELSE "kickup_failed",
                    !.first_run = agent.first_run,
                    !.config_dirty = agent.config_dirty,
                    !.startup = agent.startup]
    /\ UNCHANGED <<pitch, pid, config, telem, call>>

-----------------------------------------------------------------------------
(* Warmup and the helpers that wait *)

\* Agent.run, lines 86-91
Warmup ==
    /\ agent.pc = "warmup"
    /\ \E reading \in AgentReadings : IdleUpdate(reading)
    /\ agent' = [Ticked(agent) EXCEPT
                    !.timer = agent.timer - 1,
                    !.pc = IF agent.timer - 1 > 0 THEN "warmup" ELSE "startup"]
    /\ UNCHANGED <<battery, recovery, tuner, finder, ret, steps>>

KickupAtEveryStartup(core_pitch) == TRUE

\* Agent.run, line 104: the robot rests on a wheel
RestingOnWheel(core_pitch) == Abs(core_pitch) > REST_THRESHOLD

\* Agent.run, lines 94-115: choose Discovery, Kick-Up or the Run loop
Startup ==
    /\ agent.pc = "startup"
    /\ agent' = IF agent.first_run
                THEN CallSettle([agent EXCEPT !.phase = "discovery", !.waited = 0,
                                              !.startup = [decided |-> TRUE, first_run |-> agent.first_run,
                                                           pitch |-> pitch,
                                                           discoveries |-> @.discoveries + 1,
                                                           kickups |-> @.kickups]],
                                "d_classify")
                ELSE IF RestingOnWheel(pitch)
                THEN CallKickup([agent EXCEPT !.phase = "kickup", !.waited = 0,
                                              !.startup = [decided |-> TRUE, first_run |-> agent.first_run,
                                                           pitch |-> pitch,
                                                           discoveries |-> @.discoveries,
                                                           kickups |-> @.kickups + 1]],
                                config.target_angle,
                                config.kickup_power, "run_start")
                ELSE [agent EXCEPT !.pc = "run_start", !.waited = 0,
                                   !.startup = [@ EXCEPT !.decided = TRUE, !.pitch = pitch,
                                                         !.first_run = agent.first_run]]
    /\ UNCHANGED <<pitch, pid, config, hw, telem, call, battery, recovery, tuner, finder,
                   ret, steps>>

\* Agent._wait_for_settle: one iteration of its loop
WaitForSettle ==
    /\ agent.pc = "settle"
    /\ \E reading \in AgentReadings : IdleUpdate(reading)
    /\ agent' = IF agent.timer > 0
                THEN [Ticked(agent) EXCEPT !.timer = agent.timer - 1]
                ELSE IF Abs(telem'.pitch_rate) < SETTLE_RATE_THRESHOLD
                THEN Return(Ticked(agent))
                ELSE [Ticked(agent) EXCEPT !.timer = SettleExtendTicks]
    /\ UNCHANGED <<battery, recovery, tuner, finder, ret, steps>>

\* Agent._measure_stable_angle: one iteration of its loop, and the return of the mean
MeasureStableAngle ==
    /\ agent.pc = "measure"
    /\ \E reading \in AgentReadings : IdleUpdate(reading)
    /\ LET pitch_sum == agent.pitch_sum + telem'.pitch_angle
           count == agent.count + 1
           a == [Ticked(agent) EXCEPT !.timer = agent.timer - 1,
                                      !.pitch_sum = pitch_sum, !.count = count]
       IN  agent' = IF agent.timer - 1 > 0 THEN a
                    ELSE [Return(a) EXCEPT !.result = RoundDiv(pitch_sum, Max(1, count)),
                                           !.pitch_sum = 0, !.count = 0]
    /\ UNCHANGED <<battery, recovery, tuner, finder, ret, steps>>

\* Agent._sleep_with_update: one iteration of its loop
SleepWithUpdate ==
    /\ agent.pc = "sleep"
    /\ \E reading \in AgentReadings : IdleUpdate(reading)
    /\ agent' = IF agent.timer - 1 > 0
                THEN [Ticked(agent) EXCEPT !.timer = agent.timer - 1]
                ELSE Return(Ticked(agent))
    /\ UNCHANGED <<battery, recovery, tuner, finder, ret, steps>>

-----------------------------------------------------------------------------
(* Agent._perform_discovery *)

OtherSide(side) == IF side = "back" THEN "front" ELSE "back"

SetLimit(a, side, angle) ==
    IF side = "back" THEN [a EXCEPT !.back_angle = angle] ELSE [a EXCEPT !.front_angle = angle]

Steady == UNCHANGED <<pitch, pid, config, hw, telem, call, battery, recovery, tuner, finder,
                      ret, steps>>

\* lines 250-270: classify the starting side, or give up when too upright
DiscoveryClassify ==
    /\ agent.pc = "d_classify"
    /\ agent' = IF pitch < -SIDE_THRESHOLD
                THEN CallMeasure([agent EXCEPT !.start_side = "back"], "d_measured_start")
                ELSE IF pitch > SIDE_THRESHOLD
                THEN CallMeasure([agent EXCEPT !.start_side = "front"], "d_measured_start")
                ELSE [agent EXCEPT !.pc = "run_start"]
    /\ Steady

\* lines 271-281
DiscoveryMeasuredStart ==
    /\ agent.pc = "d_measured_start"
    /\ agent' = CallFlop([SetLimit(agent, agent.start_side, agent.result) EXCEPT !.result = 0],
                         OtherSide(agent.start_side), "d_flopped_other")
    /\ Steady

\* lines 281-285
DiscoveryFloppedOther ==
    /\ agent.pc = "d_flopped_other"
    /\ agent' = CallSettle([agent EXCEPT !.kickup_power_est = agent.result, !.result = 0],
                           "d_settled_other")
    /\ Steady

\* line 286
DiscoverySettledOther ==
    /\ agent.pc = "d_settled_other"
    /\ agent' = CallMeasure(agent, "d_measured_other")
    /\ Steady

\* lines 287-296
DiscoveryMeasuredOther ==
    /\ agent.pc = "d_measured_other"
    /\ agent' = CallFlop([SetLimit(agent, OtherSide(agent.start_side), agent.result)
                             EXCEPT !.result = 0],
                         agent.start_side, "d_flopped_back")
    /\ Steady

\* line 297
DiscoveryFloppedBack ==
    /\ agent.pc = "d_flopped_back"
    /\ agent' = CallSettle([agent EXCEPT !.result = 0], "d_bootstrap")
    /\ Steady

\* lines 300-317: bootstrap the configuration and start the Kick-Up
DiscoveryBootstrap ==
    /\ agent.pc = "d_bootstrap"
    /\ LET midpoint == RoundDiv(agent.back_angle + agent.front_angle, 2)
       IN  /\ config' = [config EXCEPT !.target_angle = midpoint, !.kp = BOOTSTRAP_KP,
                                       !.ki = 0, !.kd = BOOTSTRAP_KD,
                                       !.kickup_power = agent.kickup_power_est]
           /\ agent' = CallKickup([agent EXCEPT !.config_dirty = TRUE, !.first_run = FALSE,
                                                !.start_side = "none", !.back_angle = 0,
                                                !.front_angle = 0, !.kickup_power_est = 0],
                                  midpoint, agent.kickup_power_est, "run_start")
    /\ UNCHANGED <<pitch, pid, hw, telem, call, battery, recovery, tuner, finder, ret, steps>>

-----------------------------------------------------------------------------
(* Agent._incremental_flop *)

FlopDirection == IF agent.target_side = "front" THEN -1 ELSE 1

\* line 373 true, line 374
FlopAttempt ==
    /\ agent.pc = "f_head"
    /\ agent.power <= MAX_POWER
    /\ agent' = CallSettle(agent, "f_impulse")
    /\ Steady

\* line 373 false, line 406
FlopFails ==
    /\ agent.pc = "f_head"
    /\ agent.power > MAX_POWER
    /\ RaiseRuntimeError
    /\ UNCHANGED <<battery, recovery, tuner, finder, ret, steps>>

\* lines 379-380
FlopImpulse ==
    /\ agent.pc = "f_impulse"
    /\ hw' = HwSetMotors(hw, 1000 * FlopDirection * agent.power, 1000 * FlopDirection * agent.power)
    /\ agent' = CallSleep(agent, FlopBurstTicks, "f_stop")
    /\ UNCHANGED <<pitch, pid, config, telem, call, battery, recovery, tuner, finder, ret, steps>>

\* lines 381-385
FlopStop ==
    /\ agent.pc = "f_stop"
    /\ hw' = HwStop(hw)
    /\ agent' = [agent EXCEPT !.pc = "f_wait", !.timer = FlopWaitTicks, !.waited = 0]
    /\ UNCHANGED <<pitch, pid, config, telem, call, battery, recovery, tuner, finder, ret, steps>>

\* line 404 with the step doubled
RetryPowerTwoSteps(power) == power + 2 * POWER_STEP

\* line 404: power += step
RetryPower(power) == power + POWER_STEP

\* lines 386-404: one iteration of the result wait, then success or the next power
FlopWait ==
    /\ agent.pc = "f_wait"
    /\ \E reading \in AgentReadings : IdleUpdate(reading)
    /\ LET success == \/ agent.target_side = "front" /\ telem'.pitch_angle > REST_THRESHOLD
                      \/ agent.target_side = "back" /\ telem'.pitch_angle < -REST_THRESHOLD
       IN  agent' = IF success THEN CallSettle(Ticked(agent), "f_return")
                    ELSE IF agent.timer - 1 > 0
                    THEN [Ticked(agent) EXCEPT !.timer = agent.timer - 1]
                    ELSE [Ticked(agent) EXCEPT !.pc = "f_head", !.timer = 0, !.waited = 0,
                                               !.power = RetryPower(agent.power)]
    /\ UNCHANGED <<battery, recovery, tuner, finder, ret, steps>>

\* line 401
FlopReturn ==
    /\ agent.pc = "f_return"
    /\ agent' = [Return(agent) EXCEPT !.result = agent.power, !.power = 0,
                                      !.target_side = "none"]
    /\ Steady

-----------------------------------------------------------------------------
(* Agent._incremental_kickup *)

WrongPosition == \/ agent.kick_direction < 0 /\ pitch > -REST_THRESHOLD
                 \/ agent.kick_direction > 0 /\ pitch < REST_THRESHOLD

\* lines 457-464: the lift impulse
Lift ==
    /\ hw' = HwSetMotors(hw, 1000 * agent.power * agent.kick_direction,
                             1000 * agent.power * agent.kick_direction)
    /\ agent' = CallSleep(agent, LiftTicks, "k_catch_start")

\* line 427 true, line 428
KickupAttempt ==
    /\ agent.pc = "k_head"
    /\ agent.power <= MAX_POWER
    /\ agent' = CallSettle([agent EXCEPT !.kick_iters = Min(@ + 1, MaxKickIters)], "k_check")
    /\ Steady

\* line 427 false, line 513
KickupFails ==
    /\ agent.pc = "k_head"
    /\ agent.power > MAX_POWER
    /\ RaiseRuntimeError
    /\ UNCHANGED <<battery, recovery, tuner, finder, ret, steps>>

\* lines 433-447 and 457-464: reposition when not at the start limit, else lift
KickupCheck ==
    /\ agent.pc = "k_check"
    /\ IF WrongPosition
       THEN /\ hw' = HwSetMotors(hw, 1000 * FIX_POWER * (-agent.kick_direction),
                                     1000 * FIX_POWER * (-agent.kick_direction))
            /\ agent' = CallSleep(agent, FixTicks, "k_fix_stop")
       ELSE Lift
    /\ UNCHANGED <<pitch, pid, config, telem, call, battery, recovery, tuner, finder, ret, steps>>

\* lines 448-449
KickupFixStop ==
    /\ agent.pc = "k_fix_stop"
    /\ hw' = HwStop(hw)
    /\ agent' = CallSettle(agent, "k_recheck")
    /\ UNCHANGED <<pitch, pid, config, telem, call, battery, recovery, tuner, finder, ret, steps>>

\* lines 452-464: continue without a new power when still misplaced, else lift
KickupRecheck ==
    /\ agent.pc = "k_recheck"
    /\ IF WrongPosition
       THEN /\ agent' = [agent EXCEPT !.pc = "k_head"]
            /\ hw' = hw
       ELSE Lift
    /\ UNCHANGED <<pitch, pid, config, telem, call, battery, recovery, tuner, finder, ret, steps>>

\* lines 468-477
KickupCatchStart ==
    /\ agent.pc = "k_catch_start"
    /\ agent' = [agent EXCEPT !.pc = "catch", !.timer = CatchTicks, !.waited = 0,
                              !.catch_params =
                                  [kp |-> TruncDiv(config.kp * CATCH_KP_SCALE, 10),
                                   ki |-> config.ki,
                                   kd |-> TruncDiv(config.kd * CATCH_KD_SCALE, 10),
                                   target_angle_offset |-> 0]]
    /\ Steady

\* lines 480-498: one iteration of the catch loop
KickupCatch ==
    /\ agent.pc = "catch"
    /\ \E reading \in AgentReadings :
          CoreUpdate(Core, reading, ZeroMotion, agent.catch_params, 1000)
    /\ agent' = IF agent.timer - 1 > 0
                THEN [Ticked(agent) EXCEPT !.timer = agent.timer - 1]
                ELSE [Ticked(agent) EXCEPT !.pc = "k_verdict", !.timer = 0, !.waited = 0]
    /\ UNCHANGED <<battery, recovery, tuner, finder, ret, steps>>

\* lines 501-511: return when caught, else stop and raise the power
KickupVerdict ==
    /\ agent.pc = "k_verdict"
    /\ IF Abs(pitch - agent.target_angle) < CATCH_TOLERANCE
       THEN /\ agent' = LeaveKickup(Return(agent))
            /\ hw' = hw
       ELSE /\ hw' = HwStop(hw)
            /\ agent' = [agent EXCEPT !.pc = "k_head", !.power = agent.power + POWER_STEP,
                                      !.catch_params = ZeroTuning]
    /\ UNCHANGED <<pitch, pid, config, telem, call, battery, recovery, tuner, finder, ret, steps>>

-----------------------------------------------------------------------------
(* Agent.run: the Run loop and its ways out *)

\* lines 118-126
RunStart ==
    /\ agent.pc = "run_start"
    /\ agent' = [agent EXCEPT !.pc = "run", !.phase = "run", !.last_telemetry = NoTelemetry,
                              !.last_pitch_rate = 0, !.start_side = "none"]
    /\ Steady

ApplyAdjustmentUnfloored(cfg, adj) ==
    [cfg EXCEPT !.kp = cfg.kp + adj.kp, !.ki = cfg.ki + adj.ki, !.kd = cfg.kd + adj.kd]

\* lines 166-169
ApplyAdjustment(cfg, adj) ==
    [cfg EXCEPT !.kp = Max(100, cfg.kp + adj.kp),
                !.ki = Max(0, cfg.ki + adj.ki),
                !.kd = Max(0, cfg.kd + adj.kd)]

TargetAlwaysAccepted(new_target) == TRUE

\* line 193: the new balance point is within the allowed deviation
TargetAccepted(new_target) == Abs(new_target) <= balance_max_deviation

SaveWheneverDirty(config_dirty, elapsed) == config_dirty

\* lines 216-217: the config is dirty and more than save_interval has elapsed
\* since last_save_time
SaveDue(config_dirty, elapsed) == config_dirty /\ elapsed > SaveIntervalTicks

\* lines 130-236: one iteration of the Run loop, of at most max_ticks, the IMU
\* returning one of readings
RunIteration(max_ticks, readings) ==
    /\ agent.pc = "run"
    /\ agent.ticks < max_ticks
    /\ LET last == agent.last_telemetry
           rec == IF last.valid
                  THEN RecoveryUpdate(recovery, last.crashed, last.pitch_angle, config.kp)
                  ELSE [state |-> recovery, ret |-> None]
           target_offset == IF rec.ret # None THEN rec.ret[1] - config.target_angle ELSE 0
           curr_error == last.pitch_angle - config.target_angle
           tuner_called == last.valid /\ rec.ret = None
           tu == IF tuner_called THEN TunerUpdate(tuner, curr_error, 1)
                 ELSE [state |-> tuner, adj |-> ZeroAdjustment]
           tuned == tu.adj # ZeroAdjustment
           cfg1 == IF tuned THEN ApplyAdjustment(config, tu.adj) ELSE config
           finder_called == last.valid /\ ~last.crashed /\ rec.ret = None
           effort == TruncDiv(1000 * last.motor_output, battery.compensation_factor)
           fi == IF finder_called THEN FinderUpdate(finder, effort, last.pitch_rate)
                 ELSE [state |-> finder, ret |-> 0]
           new_target == cfg1.target_angle + fi.ret
           moved == fi.ret # 0 /\ TargetAccepted(new_target)
           cfg2 == IF moved THEN [cfg1 EXCEPT !.target_angle = new_target] ELSE cfg1
           ang_accel == 100 * (last.pitch_rate - agent.last_pitch_rate)
           ba == IF last.valid THEN BatteryUpdate(battery, last.motor_output, ang_accel).state
                 ELSE battery
           dirty == agent.config_dirty \/ tuned \/ moved
           ticks == agent.ticks + 1
           save == ticks % POLL_EVERY = 0 /\ SaveDue(dirty, agent.since_save)
           tuning_params == [kp |-> cfg1.kp, ki |-> cfg1.ki, kd |-> cfg1.kd,
                             target_angle_offset |-> target_offset]
       IN  /\ recovery' = rec.state
           /\ tuner' = tu.state
           /\ finder' = fi.state
           /\ battery' = ba
           /\ \E reading \in readings :
                 CoreUpdate([Core EXCEPT !.config = cfg2], reading, ZeroMotion, tuning_params,
                            ba.compensation_factor)
           /\ agent' = [agent EXCEPT
                 !.ticks = ticks,
                 !.config_dirty = dirty /\ ~save,
                 !.saves = IF save THEN Min(@ + 1, 1) ELSE @,
                 !.since_save = IF save THEN 1 ELSE Min(@ + 1, SaveIntervalTicks + 1),
                 !.last_save = IF save THEN ticks ELSE @,
                 !.last_telemetry = telem',
                 !.last_pitch_rate = IF last.valid THEN last.pitch_rate ELSE @,
                 !.adaptation = [prev_crashed |-> last.valid /\ last.crashed,
                                 rec_target |-> rec.ret,
                                 rec_started |-> ~recovery.recovering /\ rec.state.recovering,
                                 tuner_called |-> tuner_called,
                                 tuned |-> tuned,
                                 finder_called |-> finder_called,
                                 bal_adj |-> fi.ret,
                                 target_before |-> config.target_angle,
                                 dirty_before |-> agent.config_dirty,
                                 saved |-> save,
                                 dirty_at_poll |-> dirty,
                                 elapsed |-> agent.since_save,
                                 prev_save |-> agent.last_save]]
    /\ UNCHANGED <<ret, steps>>

RunTick == RunIteration(MaxRunTicks, AgentReadings)

\* lines 238-244: KeyboardInterrupt inside the try of the Run loop
InterruptRun ==
    /\ agent.pc = "run"
    /\ hw' = CoreCleanup(hw)
    /\ agent' = [AgentIdle EXCEPT !.pc = "done", !.phase = "done", !.outcome = "interrupted",
                                  !.interrupted_in = "run",
                                  !.first_run = agent.first_run,
                                  !.startup = agent.startup,
                                  !.ticks = agent.ticks,
                                  !.adaptation = agent.adaptation,
                                  !.last_save = agent.last_save,
                                  !.config_dirty = agent.config_dirty,
                                  !.exit_saved = agent.config_dirty,
                                  !.saves = IF agent.config_dirty THEN 1 ELSE agent.saves]
    /\ UNCHANGED <<pitch, pid, config, telem, call, battery, recovery, tuner, finder, ret, steps>>

\* lines 83-116: KeyboardInterrupt before the try of the Run loop is entered;
\* except Exception does not catch it and it leaves run as it is
InterruptStartup ==
    /\ agent.phase \in {"warmup", "discovery", "kickup"}
    /\ agent' = [AgentIdle EXCEPT !.pc = "done", !.phase = "done", !.outcome = "interrupted",
                                  !.interrupted_in = agent.phase,
                                  !.first_run = agent.first_run,
                                  !.startup = agent.startup,
                                  !.config_dirty = agent.config_dirty]
    /\ Steady

-----------------------------------------------------------------------------
(* Specification of the orchestrator: Agent() followed by Agent.run() *)

\* a saved configuration: default gains, a learned kick-up power
ConfigSaved == [ConfigDefault EXCEPT !.kickup_power = 95]

Init ==
    /\ InitParts
    /\ \E first_run \in BOOLEAN :
          /\ config = IF first_run
                      THEN [ConfigDefault EXCEPT !.kp = 0, !.ki = 0, !.kd = 0]
                      ELSE ConfigSaved
          /\ agent = [AgentIdle EXCEPT !.pc = "warmup", !.phase = "warmup",
                                       !.first_run = first_run, !.timer = WarmupTicks]

Next ==
    \/ Warmup
    \/ Startup
    \/ WaitForSettle
    \/ MeasureStableAngle
    \/ SleepWithUpdate
    \/ DiscoveryClassify
    \/ DiscoveryMeasuredStart
    \/ DiscoveryFloppedOther
    \/ DiscoverySettledOther
    \/ DiscoveryMeasuredOther
    \/ DiscoveryFloppedBack
    \/ DiscoveryBootstrap
    \/ FlopAttempt
    \/ FlopFails
    \/ FlopImpulse
    \/ FlopStop
    \/ FlopWait
    \/ FlopReturn
    \/ KickupAttempt
    \/ KickupFails
    \/ KickupCheck
    \/ KickupFixStop
    \/ KickupRecheck
    \/ KickupCatchStart
    \/ KickupCatch
    \/ KickupVerdict
    \/ RunStart
    \/ RunTick
    \/ InterruptRun
    \/ InterruptStartup

Spec == Init /\ [][Next]_vars

-----------------------------------------------------------------------------
(* The Run loop on its own, entered with gains that drive the motors and a
   balance point at or near the allowed deviation, so that the balance-point
   finder produces corrections. *)

MaxLoopTicks == 5

RunTargets == {-5, 0, 4}

InitRun ==
    /\ InitParts
    /\ \E target_angle \in RunTargets :
          config = [ConfigSaved EXCEPT !.target_angle = target_angle]
    /\ agent = [AgentIdle EXCEPT !.pc = "run", !.phase = "run"]

\* the robot balances near upright, leans, or falls
RunPoses == {-40, -3, 0, 50}

RunLoopTick == RunIteration(MaxLoopTicks, Readings(RunPoses, {0}, AgentYaws))

NextRun ==
    \/ RunLoopTick
    \/ InterruptRun

SpecRun == InitRun /\ [][NextRun]_vars

-----------------------------------------------------------------------------
(* The Run loop over several polls of the periodic save (agent.py:214-219) *)

MaxSaveTicks == 31

\* last_save_time is set by __init__ (line 71): the startup phases took less
\* than save_interval, or more
SaveElapsed == {0, SaveIntervalTicks + 1}

InitSave ==
    /\ InitParts
    /\ config = ConfigSaved
    /\ \E elapsed \in SaveElapsed :
          agent = [AgentIdle EXCEPT !.pc = "run", !.phase = "run", !.since_save = elapsed]

SaveHold == 5

\* the robot stands upright or leans by one degree, and holds a pose for
\* SaveHold ticks
SavePoses == IF agent.ticks % SaveHold = 0 THEN {-1, 0} ELSE {pitch}

SaveLoopTick == RunIteration(MaxSaveTicks, Readings(SavePoses, {0}, {0}))

NextSave ==
    \/ SaveLoopTick
    \/ InterruptRun

SpecSave == InitSave /\ [][NextSave]_vars

-----------------------------------------------------------------------------
(* Claims *)

\* C1: every reflex tick returns crashed = TRUE exactly when
\* |filtered pitch - target_angle| > crash_angle, where target_angle is
\* config.pid.target_angle + tuning.target_angle_offset + velocity * MAX_TILT_ANGLE.
C1_CrashedIffBeyondTarget ==
    telem.valid =>
        (telem.crashed <=>
            IsCrashedRelativeToTarget(telem.pitch_angle,
                                      TargetAngle(config, call.motion, call.tuning),
                                      crash_angle))

PidZero == pid.integral = 0 /\ pid.last_error = 0

\* C2: every reflex tick that returns crashed = TRUE calls stop() and never
\* set_motors, leaves the PID state at integral = 0 and last_error = 0 and
\* reports motor_output = 0; and when the adaptation components of the Run loop
\* get to see a crashed telemetry the motors are already stopped and the PID reset.
C2_CrashStopsBeforeAdaptation ==
    /\ (telem.valid /\ telem.crashed) =>
          /\ call.calls = <<"stop">>
          /\ PidZero
          /\ telem.motor_output = 0
    /\ (agent.pc = "run" /\ agent.last_telemetry.crashed) =>
          /\ agent.last_telemetry = telem
          /\ hw.left = 0 /\ hw.right = 0
          /\ PidZero

\* C2 witness: the Run loop holds a crashed telemetry from a tick that entered
\* with a non-zero integral
C2_CrashedAfterWindup ==
    /\ agent.pc = "run"
    /\ agent.last_telemetry.crashed
    /\ call.integral_before # 0

\* C3: whenever Agent.run is left because of a KeyboardInterrupt, in whatever
\* phase it arrived, the motors are stopped and the hardware is released.
C3_InterruptReleasesHardware ==
    agent.outcome = "interrupted" => (hw.released /\ hw.left = 0 /\ hw.right = 0)

\* C4: _incremental_kickup makes at most one attempt per power of its ladder
\* start_power, start_power + 5, ..., 100, whatever the sensor reports.
C4_KickupAttemptsBounded ==
    agent.start_power > 0 =>
        agent.kick_iters <= (MAX_POWER - agent.start_power) \div POWER_STEP + 1

\* C5: no waiting sub-loop of Discovery and Kick-Up (_wait_for_settle,
\* _measure_stable_angle, _sleep_with_update, the flop result wait, the catch
\* window) keeps iterating up to MaxWaited ticks, a count beyond every deadline
\* these loops are entered with.
C5_WaitsEndByDeadline ==
    agent.pc \in {"settle", "measure", "sleep", "f_wait", "catch"} => agent.waited < MaxWaited

FailedOutcomes == {"discovery_failed", "kickup_failed"}

\* C6: when _perform_discovery or _incremental_kickup raises during startup,
\* Agent.run has stopped the motors and released the hardware, has run no
\* iteration of the Run loop, and does nothing more (the maneuver is not restarted).
C6_FailedManeuverCleansUp ==
    /\ [](agent.outcome \in FailedOutcomes =>
            /\ hw.released /\ hw.left = 0 /\ hw.right = 0
            /\ agent.ticks = 0
            /\ agent.pc = "done")
    /\ [][agent.outcome \notin FailedOutcomes]_vars

\* C6 witness: Discovery has failed (a flop ladder was exhausted) and run has returned
C6_DiscoveryFailed == agent.outcome = "discovery_failed" /\ hw.released

\* C7: the PID state is reset at every discontinuity: it is zero after a crashed
\* tick, the PID update of the tick on which RecoveryManager starts a ramp starts
\* from zero, and every Kick-Up catch sub-loop is entered with zero PID state.
C7_ResetAtDiscontinuities ==
    /\ (telem.valid /\ telem.crashed) => PidZero
    /\ agent.adaptation.rec_started =>
          (call.integral_before = 0 /\ call.last_error_before = 0)
    /\ (agent.pc = "catch" /\ agent.waited = 0) => PidZero

\* C8: on a Run tick whose previous telemetry is crashed, or on which
\* RecoveryManager returned a ramp target, ContinuousTuner.update is not called
\* and the tuner changes no gain.
C8_TunerSkippedWhenCrashedOrRamping ==
    (agent.adaptation.prev_crashed \/ agent.adaptation.rec_target # None) =>
        (~agent.adaptation.tuner_called /\ ~agent.adaptation.tuned)

\* C11: the tuner's error window never holds more than buffer_size samples, a
\* sample pushed into a full window evicts the oldest one, and an update returns
\* a non-zero adjustment only when the window holds exactly buffer_size samples
\* after it.
C11_WindowFullBeforeTuning ==
    /\ [](/\ Len(tuner.errors) <= buffer_size
          /\ (ret # ZeroAdjustment => Len(tuner.errors) = buffer_size))
    /\ [][(steps' = steps + 1 /\ Abs(call'.error) <= CRASH_ANGLE) =>
            tuner'.errors = IF Len(tuner.errors) = buffer_size
                            THEN Append(Tail(tuner.errors), call'.error)
                            ELSE Append(tuner.errors, call'.error)]_vars

\* C11 witness: a nudge returned after the window had already evicted a sample
C11_TunedAfterEviction ==
    /\ ret # ZeroAdjustment
    /\ steps > buffer_size
    /\ Len(tuner.errors) = buffer_size

C13_NudgeOnlyOnFullBuffer ==
    /\ Len(finder.motor_history) < balance_check_interval
    /\ ret # 0 =>
          /\ Qualifies(call.pitch_rate)
          /\ call.len_before = balance_check_interval - 1
          /\ finder.motor_history = <<>>
          /\ call.qual >= balance_check_interval

C13_SecondNudgeAfterRefill ==
    ret # 0 /\ call.nudged_before /\ call.qual = balance_check_interval

\* C14: when the balance-point finder returns a non-zero delta and
\* |target_angle + delta| > balance_max_deviation, the Run loop leaves
\* config.pid.target_angle as it was and that delta does not mark the config
\* dirty; so a target within the deviation at Run-loop entry stays within it.
C14_OversizeTargetRejected ==
    /\ Abs(config.target_angle) <= balance_max_deviation
    /\ LET ad == agent.adaptation
       IN  (ad.bal_adj # 0 /\ Abs(ad.target_before + ad.bal_adj) > balance_max_deviation) =>
              /\ config.target_angle = ad.target_before
              /\ agent.config_dirty => (ad.dirty_before \/ ad.tuned)

C14_DeltaDiscardedAtLimit ==
    LET ad == agent.adaptation
    IN  /\ ad.bal_adj # 0
        /\ Abs(ad.target_before + ad.bal_adj) > balance_max_deviation
        /\ Abs(ad.target_before) = balance_max_deviation
        /\ ~ad.tuned
        /\ ~agent.config_dirty

\* the last update processed the ramp: it was not crashed and a ramp was under
\* way or was started by it
RampProcessed == call.called /\ ~call.is_crashed /\ call.updates > 0

\* the setpoint the ramp step of the last update started from
RampFrom == IF call.recovering_before THEN call.ramp_before ELSE call.current_pitch

\* C15: RecoveryManager.update sets recovering only on a call with
\* is_crashed = false, current_kp >= 1.0 and |current_pitch| > 5; a call that
\* finds recovering = false and fails one of these returns None and leaves
\* recovering = false and ramp_setpoint as they were.
C15_SoftStartOnlyWhenNeeded ==
    /\ (~call.recovering_before /\ recovery.recovering) =>
          /\ ~call.is_crashed
          /\ call.current_kp >= RECOVERY_MIN_KP
          /\ Abs(call.current_pitch) > RECOVERY_PITCH
    /\ (/\ call.called
        /\ ~call.recovering_before
        /\ \/ call.is_crashed
           \/ call.current_kp < RECOVERY_MIN_KP
           \/ Abs(call.current_pitch) <= RECOVERY_PITCH) =>
          /\ ret = None
          /\ ~recovery.recovering
          /\ recovery.ramp_setpoint = call.ramp_before

C15_StartedAtMinimumGain ==
    /\ ~call.recovering_before
    /\ recovery.recovering
    /\ call.current_kp = RECOVERY_MIN_KP
    /\ call.current_pitch = 6

\* C16: every update that processes the ramp moves ramp_setpoint toward 0 by
\* exactly STARTUP_RAMP_SPEED, or sets it to exactly 0 when the step would cross
\* zero; the setpoint never changes sign, its magnitude never grows, and it is
\* exactly 0 after ceil(|start pitch| / STARTUP_RAMP_SPEED) such updates.
C16_RampStepsTowardZero ==
    RampProcessed =>
       /\ recovery.ramp_setpoint =
             IF Abs(RampFrom) <= STARTUP_RAMP_SPEED THEN 0
             ELSE IF RampFrom > 0 THEN RampFrom - STARTUP_RAMP_SPEED
             ELSE RampFrom + STARTUP_RAMP_SPEED
       /\ recovery.ramp_setpoint * RampFrom >= 0
       /\ Abs(recovery.ramp_setpoint) <= Abs(RampFrom)
       /\ call.updates >= (Abs(call.start) + STARTUP_RAMP_SPEED - 1) \div STARTUP_RAMP_SPEED
             => recovery.ramp_setpoint = 0

C16_ClampedAtZero ==
    /\ RampProcessed
    /\ Abs(RampFrom) = 1
    /\ recovery.ramp_setpoint = 0
    /\ call.start = -7
    /\ call.updates = 4

\* C17: a recovery (such as the one begun at pitch 20 with kp 5) returns the
\* ramp value on every update that processes the ramp, except that the first
\* update at which |ramp_setpoint| < 0.1 and |current_pitch| < 5 both hold
\* returns None with recovering = false; and if from some update on the pitch
\* stays within 5 degrees and no crash is reported, recovery completes.
C17_RecoveryCompletes ==
    /\ [](RampProcessed =>
            IF 10 * Abs(recovery.ramp_setpoint) < 1 /\ Abs(call.current_pitch) < RECOVERY_PITCH
            THEN ret = None /\ ~recovery.recovering
            ELSE ret = <<recovery.ramp_setpoint>> /\ recovery.recovering)
    /\ <>[](~call.is_crashed /\ Abs(call.current_pitch) < RECOVERY_PITCH)
          => <>[](~recovery.recovering)

C17_CompletedFromTwenty ==
    /\ RampProcessed
    /\ call.start = 20
    /\ call.current_kp = 5000
    /\ call.updates > 10
    /\ ret = None
    /\ ~recovery.recovering

MotorRange == MOTOR_MIN_OUTPUT .. MOTOR_MAX_OUTPUT

\* C18: every value that RobotHardware.set_motors hands to the motor driver is
\* an integer in [-100, 100], whatever the left/right commands and the
\* inversion flags are.
C18_DriverValuesInRange == hw.left \in MotorRange /\ hw.right \in MotorRange

C18_InvertedAndClamped ==
    /\ call.op = "set_motors"
    /\ hw.invert_l /\ ~hw.invert_r
    /\ call.left = 790000 /\ hw.left = MOTOR_MIN_OUTPUT
    /\ call.right = -99500 /\ hw.right = -99

\* C19: a motor-driver register write is attempted at most RETRIES times, and
\* when every attempt failed the driver has logged an error and returns to its
\* caller: set_motor, stop and cleanup raise nothing on bus errors.
C19_WriteFailureLoggedNotRaised ==
    /\ call.attempts <= RETRIES
    /\ ~call.raised
    /\ call.exhausted => call.logged

\* C20: RobotHardware.read_imu_raw never raises on a sensor OSError; it returns
\* the vectors of the last successful reads (all zeros if there has been none),
\* and a successful read replaces the held values.
C20_ReadHoldsLastGoodOnError ==
    call.op = "read_imu_raw" => (~call.raised /\ ret = call.held)

\* C21: after Warmup, Agent.run calls _perform_discovery exactly once if this
\* is a first run (no saved config, or calibration forced) and never otherwise;
\* on a normal start it calls _incremental_kickup exactly once if |pitch| > 10
\* after Warmup and not at all when the robot is upright; before the decision
\* neither has been called, and the Run loop is entered only after it.
C21_StartupSequence ==
    LET st == agent.startup
    IN  /\ st.discoveries = (IF st.decided /\ st.first_run THEN 1 ELSE 0)
        /\ st.kickups = (IF st.decided /\ ~st.first_run /\ Abs(st.pitch) > REST_THRESHOLD
                         THEN 1 ELSE 0)
        /\ agent.pc \in {"warmup", "startup"} => ~st.decided
        /\ agent.phase \in {"discovery", "kickup", "run"} => st.decided
        /\ agent.phase = "discovery" => st.first_run
        /\ (agent.phase = "kickup" /\ ~st.first_run) => Abs(st.pitch) > REST_THRESHOLD

C21_RunAfterStartupKickup ==
    /\ agent.phase = "run"
    /\ ~agent.startup.first_run
    /\ agent.startup.kickups = 1
    /\ agent.startup.pitch = -40

\* C22: in the Run loop config.save() is called only with the dirty flag set and
\* more than save_interval after last_save_time (set at construction and at
\* every periodic save), so two periodic saves are more than save_interval
\* apart; the save clears the dirty flag and nothing else in the loop does.
C22_SaveOnlyWhenDue ==
    LET ad == agent.adaptation
    IN  /\ ad.saved =>
              /\ ad.dirty_at_poll
              /\ ad.elapsed > SaveIntervalTicks
              /\ ~agent.config_dirty
              /\ agent.last_save = agent.ticks
              /\ ad.prev_save > 0 => agent.ticks - ad.prev_save > SaveIntervalTicks
        /\ ~ad.saved => agent.config_dirty = ad.dirty_at_poll

C22_SecondSaveAfterInterval ==
    /\ agent.adaptation.saved
    /\ agent.adaptation.prev_save > 0
    /\ ~agent.config_dirty

\* C23: whenever Agent.run has ended, by an interrupt or by a failed Discovery
\* or Kick-Up, a config whose dirty flag is set has been saved by the exit path.
C23_DirtyConfigSavedAtExit ==
    (agent.pc = "done" /\ agent.config_dirty) => agent.exit_saved

\* C24: an update with |pwm| >= min_pwm made while fewer than baseline_samples
\* samples have been collected returns exactly 1.0, raises samples_collected
\* by one and leaves baseline_responsiveness (and current_responsiveness) at
\* the arithmetic mean of the |angular_accel| / |pwm| samples seen so far;
\* the compensation factor stays 1.0.
C24_BaselineIsMeanOfSamples ==
    LET before == call.battery_before
    IN  (/\ steps > 0
         /\ Abs(call.pwm) >= 1000 * min_pwm
         /\ before.samples_collected < baseline_samples) =>
            /\ ret = 1000
            /\ battery.compensation_factor = 1000
            /\ battery.samples_collected = before.samples_collected + 1
            /\ battery.baseline_responsiveness =
                   RoundDiv(call.sample_sum, battery.samples_collected)
            /\ battery.current_responsiveness = battery.baseline_responsiveness

C24_BaselineOfTwoSamples ==
    /\ call.battery_before.samples_collected = 1
    /\ call.battery_before.baseline_responsiveness = 100
    /\ call.pwm = 50000 /\ call.angular_accel = 1000000
    /\ battery.samples_collected = 2
    /\ battery.baseline_responsiveness = 10050
    /\ ret = 1000

C26_TunerHeuristics ==
    LET errors == tuner.errors
        n == Len(errors)
        total == SeqSum(errors)
        deviation == SeqSum([i \in 1..n |-> (n * errors[i] - total) * (n * errors[i] - total)])
        oscillation == 100 * CountZeroCrossings(errors) > buffer_size * oscillation_threshold
        stability == /\ deviation < stability_std_dev * stability_std_dev * n * n * (n - 1)
                     /\ Abs(total) < n * stability_mean_err
        steady_error == Abs(total) > n * steady_error_threshold
    IN  (/\ steps > 0
         /\ Abs(call.error) <= CRASH_ANGLE
         /\ call.cooldown_before = 0
         /\ n = buffer_size) =>
            /\ ret.kp = (IF oscillation THEN kp_oscillation_penalty * call.scale
                         ELSE IF stability THEN kp_stability_boost * call.scale ELSE 0)
            /\ ret.kd = (IF oscillation THEN kd_oscillation_boost * call.scale ELSE 0)
            /\ ret.ki = (IF steady_error THEN ki_boost * call.scale ELSE 0)
            /\ ~(ret.kp = kp_stability_boost * call.scale /\ ret.kd # 0)

\* a window that both crosses zero and leans: all three gains are nudged
C26_OscillationAndSteadyError ==
    /\ tuner.errors = <<-10, 0>>
    /\ call.cooldown_before = 0
    /\ call.scale = 2
    /\ ret = [kp |-> 2 * kp_oscillation_penalty, ki |-> 2 * ki_boost,
              kd |-> 2 * kd_oscillation_boost]

\* C27: BalancePointFinder.update returns -balance_learning_rate when the mean
\* of the analysed motor history is above balance_motor_threshold,
\* +balance_learning_rate when it is below -balance_motor_threshold and 0
\* otherwise (a mean exactly at the threshold, or no analysis in this call); it
\* returns no other value.
C27_AdjustmentBySignOfMean ==
    LET n == Len(call.analysed)
        total == SeqSum(call.analysed)
    IN  /\ ret \in {-balance_learning_rate, 0, balance_learning_rate}
        /\ n = 0 => ret = 0
        /\ n > 0 =>
              /\ n >= balance_check_interval
              /\ total > n * 1000 * balance_motor_threshold => ret = -balance_learning_rate
              /\ total < -(n * 1000 * balance_motor_threshold) => ret = balance_learning_rate
              /\ Abs(total) <= n * 1000 * balance_motor_threshold => ret = 0

\* the motor pushed backward throughout the history: the target is raised
C27_RaisedAfterBackwardEffort ==
    /\ Len(call.analysed) = balance_check_interval
    /\ \A i \in 1..Len(call.analysed) : call.analysed[i] = -10000
    /\ ret = balance_learning_rate
    /\ finder.motor_history = <<>>

\* C28: RobotConfig.load of a legacy flat document (pid_kp, pid_ki, pid_kd,
\* target_angle at the root) gives the PID parameters, and the whole config,
\* that it gives for the nested document {pid: {kp, ki, kd, target_angle}} with
\* the same values; in both shapes an absent field takes its default and
\* unknown keys are ignored; _migrate_legacy_data returns a document that has
\* a pid key unchanged; a load after a successful save returns the saved
\* config; a missing or unreadable file gives the defaults.
C28_LegacyAndNestedLoadAlike ==
    LET file == call.file
        data == file.data
        nested == "pid" \in DOMAIN data
        pairs == {<<"pid_kp", "kp">>, <<"pid_ki", "ki">>, <<"pid_kd", "kd">>,
                  <<"target_angle", "target_angle">>}
        present == { pr \in pairs : pr[1] \in DOMAIN data }
        as_nested ==
            ("pid" :> [f \in { pr[2] : pr \in present } |->
                          data[(CHOOSE pr \in present : pr[2] = f)[1]]])
            @@ [k \in (DOMAIN data) \ { pr[1] : pr \in pairs } |-> data[k]]
        given == IF nested THEN data["pid"] ELSE as_nested["pid"]
    IN  call.op = "load" =>
          IF ~file.exists \/ ~file.valid
          THEN config = RobotConfigDefault
          ELSE /\ \A f \in {"kp", "ki", "kd", "target_angle", "integral_limit"} :
                     config.pid[f] = (IF f \in DOMAIN given THEN given[f]
                                      ELSE PIDParamsDefault[f])
               /\ DOMAIN config.pid = DOMAIN PIDParamsDefault
               /\ config.loop_time = (IF "loop_time" \in DOMAIN data THEN data["loop_time"]
                                      ELSE RobotConfigDefault.loop_time)
               /\ nested => MigrateLegacyData(data) = data
               /\ ~nested => config = LoadConfig([file EXCEPT !.data = as_nested])
               /\ call.saved # <<>> => config = call.saved[1]

\* a legacy file with two of the four keys and a root field
C28_LegacyFileLoaded ==
    /\ call.op = "load"
    /\ call.file.valid
    /\ call.file.data = [pid_kp |-> 2000, target_angle |-> 4, loop_time |-> 2]
    /\ config = [pid |-> [PIDParamsDefault EXCEPT !.kp = 2000, !.target_angle = 4],
                 loop_time |-> 2]

\* C29: after n calls of sleep() since construction or reset at t0, next_time
\* is t0 + n*period whatever the work between the calls took; a call made at
\* or after its deadline does not sleep, a call made before it sleeps until
\* the deadline at least, and an overrun shifts no later deadline.
C29_AccumulatingDeadline ==
    /\ call.next_time = call.t0 + call.n * RatePeriod
    /\ call.op = "sleep" =>
          /\ call.now_before >= call.next_time => (call.slept = 0 /\ call.now = call.now_before)
          /\ call.now_before < call.next_time =>
                (call.slept >= call.next_time - call.now_before /\ call.now >= call.next_time)

\* the work overran a deadline, and a later call sleeps to its own deadline
C29_OnScheduleAfterOverrun ==
    /\ call.op = "sleep"
    /\ call.overrun
    /\ call.slept > 0
    /\ call.n = 3
    /\ call.now = call.t0 + 3 * RatePeriod

\* C30: a BalanceCore.update call made with zero TuningParams (Warmup,
\* _wait_for_settle, _measure_stable_angle, _sleep_with_update, the wait for a
\* flop's result) leaves the persisted gains config.pid.kp, ki and kd as they
\* were.
C30_ZeroTuningKeepsGains ==
    [][(Warmup \/ WaitForSettle \/ MeasureStableAngle \/ SleepWithUpdate \/ FlopWait) =>
          (config'.kp = config.kp /\ config'.ki = config.ki /\ config'.kd = config.kd)]_vars

\* C31: from the set_motors call of a flop impulse or of a kick-up lift to the
\* end of its _sleep_with_update the hardware keeps the command
\* direction * power on both motors: no other set_motors or stop reaches it
\* during the burst.
C31_BurstCommandHeld ==
    /\ (\/ agent.pc = "sleep" /\ Head(agent.stack) = "f_stop"
        \/ agent.pc = "f_stop") =>
          /\ hw.left = FlopDirection * agent.power
          /\ hw.right = FlopDirection * agent.power
    /\ (\/ agent.pc = "sleep" /\ Head(agent.stack) = "k_catch_start"
        \/ agent.pc = "k_catch_start") =>
          /\ hw.left = agent.kick_direction * agent.power
          /\ hw.right = agent.kick_direction * agent.power

\* C32: RecoveryManager.update begins a soft-start ramp only on a just-uncrashed
\* transition: in the first update ever or in the first non-crashed update
\* after a crashed one; while the robot keeps balancing without a crash no new
\* ramp begins.
C32_RampOnlyAfterCrash ==
    (call.called /\ ~call.recovering_before /\ recovery.recovering) => call.after_crash

\* C33: when _perform_discovery has returned without raising (Agent.run is
\* about to enter the Run loop on a first run), the gains are the conservative
\* initial values kp = 10, ki = 0, kd = 0.2, first_run is false and the
\* bootstrap has marked the config dirty: Discovery never returns normally with
\* the robot uncalibrated and zero gains.
C33_DiscoveryReturnsCalibrated ==
    (agent.pc = "run_start" /\ agent.startup.first_run) =>
        /\ config.kp = BOOTSTRAP_KP
        /\ config.ki = 0
        /\ config.kd = BOOTSTRAP_KD
        /\ ~agent.first_run
        /\ agent.config_dirty

\* the powers 30, 35, ..., 100 of the flop attempts
FlopPowers ==
    {p \in FLOP_START_POWER..MAX_POWER : (p - FLOP_START_POWER) % POWER_STEP = 0}

C36_TunedGainsFloored ==
    [][RunTick =>
        LET ad == agent'.adaptation
        IN  /\ ad.tuned =>
                  /\ config'.kp >= 100
                  /\ config'.ki >= 0
                  /\ config'.kd >= 0
                  /\ agent'.config_dirty \/ ad.saved
            /\ (ad.tuner_called /\ ~ad.tuned) =>
                  /\ config'.kp = config.kp
                  /\ config'.ki = config.ki
                  /\ config'.kd = config.kd
                  /\ agent'.config_dirty => (agent.config_dirty \/ ad.bal_adj # 0)]_vars

\* an adjustment has just been applied to a kp so small that the result was
\* floored at 0.1
C36_KpFlooredAfterTuning ==
    /\ agent.pc = "run"
    /\ agent.adaptation.tuned
    /\ config.kp = 100
    /\ agent.config_dirty

\* C37: a BatteryEstimator.update call with |pwm| < min_pwm returns the
\* current compensation_factor and leaves samples_collected,
\* baseline_responsiveness, current_responsiveness and compensation_factor
\* unchanged; so does the call with pwm = 0 that follows a crashed tick.
C37_DeadzoneLeavesEstimator ==
    (steps > 0 /\ Abs(call.pwm) < 1000 * min_pwm) =>
        /\ ret = call.battery_before.compensation_factor
        /\ battery.samples_collected = call.battery_before.samples_collected
        /\ battery.baseline_responsiveness = call.battery_before.baseline_responsiveness
        /\ battery.current_responsiveness = call.battery_before.current_responsiveness
        /\ battery.compensation_factor = call.battery_before.compensation_factor

\* a deadzone call made with a large acceleration while the estimator is
\* compensating for a weak battery
C37_DeadzoneWhileCompensating ==
    /\ steps > 0
    /\ Abs(call.pwm) < 1000 * min_pwm
    /\ call.angular_accel > 0
    /\ call.battery_before.samples_collected = baseline_samples
    /\ ret < 1000

Sign(x) == IF x > 0 THEN 1 ELSE IF x < 0 THEN -1 ELSE 0

\* the first non-zero sample of errors after position i, 0 if there is none
RECURSIVE NextNonZero(_, _)
NextNonZero(errors, i) ==
    IF i >= Len(errors) THEN 0
    ELSE IF errors[i + 1] # 0 THEN errors[i + 1]
    ELSE NextNonZero(errors, i + 1)

\* the pairs (e1, e2) at which the signal changes sign: strictly opposite
\* signs, or e1 non-zero, e2 zero and the signal next non-zero on the other side
SignChanges(errors) ==
    Cardinality({ i \in 1..(Len(errors) - 1) :
        /\ errors[i] # 0
        /\ Sign(NextNonZero(errors, i)) = -Sign(errors[i])
        /\ NextNonZero(errors, i) # 0 })

\* C38: on a window that begins and ends with a non-zero sample,
\* _count_zero_crossings counts exactly the pairs with strictly opposite signs
\* and the sign flips through a zero sample; touching zero and returning to
\* the same sign (+1, 0, +1) adds no crossing.
C38_CrossingsAreSignChanges ==
    (/\ Len(tuner.errors) > 0
     /\ tuner.errors[1] # 0
     /\ tuner.errors[Len(tuner.errors)] # 0) =>
        ret = SignChanges(tuner.errors)

\* C39: every reflex tick of Warmup (zero gains, zero motion request) leaves
\* both motors commanded to 0, whatever the IMU reports.
C39_WarmupMotorsZero ==
    [][Warmup => (hw'.left = 0 /\ hw'.right = 0)]_vars

\* C40: in the single-file program, once the KeyboardInterrupt handler has
\* called pz.stop() the control-loop thread issues no further motor command,
\* and once the fall cutoff has acted none is issued either.
C40_NoCommandAfterStop ==
    [][(call.kb_stopped \/ call.fell) => ~ControlThreadCommand]_vars

\* C9: after every PIDController call (update with any error and positive dt,
\* or reset) the integral lies within +-integral_limit.
C9_IntegralWithinLimit == Abs(pid.integral) <= config.integral_limit

\* C9 witness: an update whose accumulated sum left the range and was clamped to the limit
C9_ClampActed ==
    /\ call.dt > 0
    /\ Abs(call.integral_before + call.error * call.dt) > config.integral_limit
    /\ Abs(pid.integral) = config.integral_limit

BatteryInRange(x) == min_compensation <= x /\ x <= max_compensation

\* C10: the stored compensation_factor and every returned value lie in
\* [min_compensation, max_compensation], and once the baseline is established
\* an update leaves the factor alone or moves it by one smoothing step toward
\* a target inside that range (it is never set back to 1.0).
C10_FactorBoundedAndOnlySmoothed ==
    /\ [](BatteryInRange(battery.compensation_factor) /\ (steps > 0 => BatteryInRange(ret)))
    /\ [][battery.samples_collected >= baseline_samples =>
            \/ battery'.compensation_factor = battery.compensation_factor
            \/ \E t \in min_compensation..max_compensation :
                  battery'.compensation_factor = SmoothFactor(t, battery.compensation_factor)]_vars

\* C10 witness: after the baseline, a ratio above the range was clamped and the factor moved
C10_ClampedAndMoved ==
    /\ battery.samples_collected >= baseline_samples
    /\ call.ratio > max_compensation
    /\ battery.compensation_factor > 1000
    /\ ret = battery.compensation_factor

====
